---- MODULE Spec2Model ----
(***************************************************************************)
(* LOOM topology kernels.                                                  *)
(*                                                                         *)
(*   - the CSR kernel            src/kernel/src/loom_kernel.c               *)
(*   - the ESP32 kernel          src/esp32/loom_esp32_kernel.c              *)
(*   - the Arduino library       src/esp32/esp32_loom_arduino.cpp          *)
(*                                                                         *)
(* Each kernel has its own variables and its own specification; the       *)
(* variables `call' and `ret' record the last API call and what it         *)
(* returned, so that properties can speak about one call's effect.        *)
(***************************************************************************)
EXTENDS Integers, Sequences, FiniteSets, TLC

VARIABLES
    call,              \* the last API call (the function's name)
    ret,               \* what the last API call returned
    \* ---- CSR kernel (LoomTopology, CSRMatrix) ----
    loom_num_nodes,    \* topology->num_nodes
    loom_row_ptr,      \* edge_matrix->row_ptr[0 .. initial_capacity]
    loom_col_idx,      \* edge_matrix->col_idx[0 .. num_edges)
    loom_values,       \* edge_matrix->values[0 .. num_edges)
    loom_num_edges,    \* edge_matrix->num_edges
    loom_node_bank,    \* topology->node_bank[0 .. initial_capacity)
    loom_oob,          \* a write went past an array allocated by loom_init
    loom_created,      \* history: (source,target) -> weight of the latest create_edge
    \* ---- ESP32 kernel (Esp32LoomTopology) ----
    esp32_num_nodes,   \* uint16_t num_nodes
    esp32_nodes,       \* Esp32NodeVector nodes[ESP32_MAX_NODES]
    esp32_num_edges,   \* uint16_t num_edges
    esp32_edges,       \* Esp32Edge edges[0 .. num_edges)
    esp32_weaves,      \* history: the number of successful weave_node calls
    esp32_pulls,       \* history: the number of hebbian_update_pair calls
    esp32_sources,     \* history: for each edge slot, the source it was created from
    esp32_num_hyperedges, \* uint16_t num_hyperedges
    esp32_hyperedges,  \* Esp32Hyperedge hyperedges[0 .. num_hyperedges)
    esp32_hyper_args,  \* history: (count, processor_type) each hyperedge was created with
    esp32_computes,    \* history: the number of compute_hyperedge calls
    esp32_cycles_executed, \* uint32_t cycles_executed
    esp32_emergence_metric, \* float emergence_metric
    esp32_experience_index,  \* uint16_t experience_index
    esp32_experience_buffer, \* the bytes of experience_buffer[]
    esp32_experience_oob,    \* a write went past experience_buffer
    esp32_experience_calls,  \* history: the number of record_experience calls
    ard_experience_index,    \* uint8_t experience_index of the Arduino library
    ard_experience_buffer,   \* the bytes of its experience_buffer[]
    ard_experience_calls,    \* history: the number of record_experience calls
    \* ---- functions of their arguments alone ----
    pure_in,           \* the arguments a behaviour applies the function to
    pure_out,          \* what the function made of them so far
    \* ---- Arduino library (ArduinoLoomTopology) ----
    ard_num_nodes,     \* uint8_t num_nodes
    ard_nodes,         \* ArduinoNodeVector nodes[]: the slots written so far
    ard_num_edges,     \* uint8_t num_edges
    ard_edges,         \* ArduinoEdge edges[0 .. num_edges)
    ard_weaves,        \* history: the number of weave_node calls that wrote a node
    ard_pulls,         \* history: the number of hebbian_update_pair calls
    kernel             \* the kernel a behaviour exercises

loom_vars == <<loom_num_nodes, loom_row_ptr, loom_col_idx, loom_values,
               loom_num_edges, loom_node_bank, loom_oob, loom_created>>

esp32_vars == <<esp32_num_nodes, esp32_nodes, esp32_num_edges, esp32_edges,
                esp32_weaves, esp32_pulls, esp32_sources, esp32_num_hyperedges,
                esp32_hyperedges, esp32_hyper_args, esp32_computes>>

esp32_hyper_vars == <<esp32_num_hyperedges, esp32_hyperedges, esp32_hyper_args,
                      esp32_computes>>

VARIABLES
    esp32_phases       \* history: the phases of the last esp32_loom_kernel_cycle

esp32_tick_vars == <<esp32_cycles_executed, esp32_emergence_metric, esp32_phases>>

exp_vars == <<esp32_experience_index, esp32_experience_buffer, esp32_experience_oob,
              esp32_experience_calls, ard_experience_index, ard_experience_buffer,
              ard_experience_calls>>

\* the variables outside the node, edge and hyperedge tables of the kernels
pure_vars == <<pure_in, pure_out>>

VARIABLES
    \* ---- LoomTensor objects of a host program ----
    tensors,           \* the tensors created so far; a handle is an index
    tensor_fault,      \* "none", or how the last call faulted
    tensor_args,       \* the handles the last tensor call was given
    tensor_gemms       \* number of loom_tensor_gemm calls

tensor_vars == <<tensors, tensor_fault, tensor_args, tensor_gemms>>

VARIABLES
    \* ---- ESP-IDF application (main.cpp): FreeRTOS tasks ----
    task_pc,               \* where each task is in its function
    task_in,               \* the topology function each task is executing
    topology_initialized,  \* main.cpp's flag
    cycle_count,           \* consciousness_task's local counter
    demo_step,             \* run_demos: index of the next construction call
    demo_trial,            \* run_demos: trial
    demo_i                 \* run_demos: cycle within the trial

task_vars == <<task_pc, task_in, topology_initialized, cycle_count, demo_step,
               demo_trial, demo_i>>

VARIABLES
    \* ---- the run loops: esp32_loom_main_loop and Esp32Loom::run ----
    run_ticks,             \* history: kernel cycles the loop completed so far
    run_sleeps,            \* history: consolidations in the last iteration
    ard_cycles_executed    \* ArduinoLoomTopology.cycles_executed, a uint16_t

run_vars == <<run_ticks, run_sleeps, ard_cycles_executed>>

VARIABLES
    \* ---- CSR kernel: activations, hyperedges and the kernel cycle ----
    loom_activation,       \* node_bank[n].components[VEC_ACTIVATION]
    loom_num_hyperedges,   \* topology->num_hyperedges
    loom_hyperedges,       \* topology->hyperedges[0 .. num_hyperedges)
    loom_cycles_executed,  \* topology->cycles_executed
    loom_cycle_calls,      \* history: the number of loom_kernel_cycle calls
    loom_phases,           \* history: the phases of the last cycle
    loom_writers           \* history: for each node vector, the iterations of
                           \* the last Hebbian parallel-for that wrote it

csr_vars == <<loom_activation, loom_num_hyperedges, loom_hyperedges,
              loom_cycles_executed, loom_cycle_calls, loom_phases, loom_writers>>

VARIABLES
    \* ---- ESP-IDF application: read_sensors_task ----
    sensor_pc,             \* where read_sensors_task is in its function
    sensor_reads           \* history: the iterations of its loop so far

sensor_vars == <<sensor_pc, sensor_reads>>

ext_vars == <<esp32_tick_vars, exp_vars, pure_vars, tensor_vars, task_vars, run_vars, csr_vars, sensor_vars>>
ext_but_tick == <<exp_vars, pure_vars, tensor_vars, task_vars, run_vars, csr_vars, sensor_vars>>
ext_but_exp == <<esp32_tick_vars, pure_vars, tensor_vars, task_vars, run_vars, csr_vars, sensor_vars>>
ext_but_pure == <<esp32_tick_vars, exp_vars, tensor_vars, task_vars, run_vars, csr_vars, sensor_vars>>
ext_but_tensor == <<esp32_tick_vars, exp_vars, pure_vars, task_vars, run_vars, csr_vars, sensor_vars>>
ext_but_task == <<esp32_tick_vars, exp_vars, pure_vars, tensor_vars, run_vars, csr_vars, sensor_vars>>
ext_but_run == <<esp32_tick_vars, exp_vars, pure_vars, tensor_vars, task_vars, csr_vars, sensor_vars>>
ext_but_csr == <<esp32_tick_vars, exp_vars, pure_vars, tensor_vars, task_vars, run_vars, sensor_vars>>
ext_but_sensor == <<esp32_tick_vars, exp_vars, pure_vars, tensor_vars, task_vars, run_vars,
                    csr_vars>>
ext_but_tick_run == <<exp_vars, pure_vars, tensor_vars, task_vars, csr_vars, sensor_vars>>

ard_vars == <<ard_num_nodes, ard_nodes, ard_num_edges, ard_edges, ard_weaves,
              ard_pulls>>

\* ------------------------------------------------------------------------
\* Bounds of the model
\* ------------------------------------------------------------------------

\* initial_capacity handed to loom_init
CsrCapacity == 2
\* edges inserted into the CSR arrays (the arrays hold 20 * initial_capacity)
MaxCsrEdges == 5
\* pairwise Hebbian updates applied to one node vector
MaxPulls == 2
\* identifiers handed to weave
Idents == {"a", "b"}
\* identifiers handed to loom_weave_node
CsrIdents == {"a"}
\* edge weights handed to create_edge, in tenths
Weights == {3, 9}

NoCall == "none"

Min(S) == CHOOSE x \in S : \A y \in S : x <= y

\* ------------------------------------------------------------------------
\* Hash of an identifier (djb2, 32 bit)
\* ------------------------------------------------------------------------
CharCode(c) == CASE c = "a" -> 97 [] c = "b" -> 98 [] OTHER -> 0

\* hash = 5381; hash = ((hash << 5) + hash) + c, for the one-character
\* identifiers of Idents (the result is far below 2^32: no wrap-around)
loom_hash_string(str) == ((5381 * 32) + 5381) + CharCode(str)

\* ========================================================================
\* CSR kernel
\* ========================================================================

\* A node vector, by what was done to it: the hash loom_initialize_vector
\* derived it from, the number of +1.0 steps made on its connection-count
\* component and the number of loom_apply_hebbian_learning calls it took
\* part in.  A slot never initialised is calloc'ed memory.
ZeroVector == [init |-> FALSE, hash |-> 0, degree |-> 0, pulls |-> 0]

loom_initialize_vector(hash) ==
    [init |-> TRUE, hash |-> hash, degree |-> 0, pulls |-> 0]

\* The topology as one value, so that calls compose.
LoomState == [num_nodes |-> loom_num_nodes, row_ptr |-> loom_row_ptr,
              col_idx |-> loom_col_idx, values |-> loom_values,
              num_edges |-> loom_num_edges, node_bank |-> loom_node_bank]

LoomSet(T) ==
    /\ loom_num_nodes' = T.num_nodes
    /\ loom_row_ptr' = T.row_ptr
    /\ loom_col_idx' = T.col_idx
    /\ loom_values' = T.values
    /\ loom_num_edges' = T.num_edges
    /\ loom_node_bank' = T.node_bank

\* loom_init(initial_capacity): calloc'ed row_ptr, empty CSR arrays.
LoomInit ==
    /\ loom_num_nodes = 0
    /\ loom_row_ptr = [i \in 0..CsrCapacity |-> 0]
    /\ loom_col_idx = <<>>
    /\ loom_values = <<>>
    /\ loom_num_edges = 0
    /\ loom_node_bank = [i \in 0..(CsrCapacity - 1) |-> ZeroVector]
    /\ loom_oob = FALSE
    /\ loom_created = [p \in (0..(CsrCapacity - 1)) \X (0..(CsrCapacity - 1)) |-> 0]

InsertAt(s, pos, x) == SubSeq(s, 1, pos) \o <<x>> \o SubSeq(s, pos + 1, Len(s))

BumpDegree(bank, n) == [bank EXCEPT ![n].degree = @ + 1]

\* loom_create_edge: update in place when target is found in source's row,
\* otherwise shift the suffix, insert at the row's end and increment the
\* row pointers source+1 .. topology->num_nodes.
loom_create_edge(T, source, target, weight) ==
    LET row_start == T.row_ptr[source]
        row_end == T.row_ptr[source + 1]
        found == {i \in row_start..(row_end - 1) : T.col_idx[i + 1] = target}
        insert_pos == row_end
    IN  IF found # {}
        THEN [T EXCEPT !.values[Min(found) + 1] = weight]
        ELSE [T EXCEPT
                !.col_idx = InsertAt(T.col_idx, insert_pos, target),
                !.values = InsertAt(T.values, insert_pos, weight),
                !.row_ptr = [i \in DOMAIN T.row_ptr |->
                               IF i >= source + 1 /\ i <= T.num_nodes
                               THEN T.row_ptr[i] + 1 ELSE T.row_ptr[i]],
                !.num_edges = T.num_edges + 1,
                !.node_bank = BumpDegree(BumpDegree(T.node_bank, source), target)]

\* loom_apply_hebbian_learning(a, b, rate): both vectors take part in one
\* pairwise update.
loom_apply_hebbian_learning(T, a, b) ==
    [T EXCEPT !.node_bank =
        [n \in DOMAIN T.node_bank |->
            IF n = a \/ n = b
            THEN [T.node_bank[n] EXCEPT !.pulls = @ + 1]
            ELSE T.node_bank[n]]]

\* loom_create_bidirectional
loom_create_bidirectional(T, a, b, weight) ==
    loom_apply_hebbian_learning(
        loom_create_edge(loom_create_edge(T, a, b, weight), b, a, weight), a, b)

\* ---- actions ----

\* loom_weave_node: node_id = num_nodes++, no capacity check.  With
\* num_nodes = initial_capacity the vector is written past node_bank.
LoomWeave(identifier) ==
    /\ kernel = "csr"
    /\ ~loom_oob
    /\ LET node_id == loom_num_nodes
           hash == loom_hash_string(identifier)
       IN  /\ loom_num_nodes' = loom_num_nodes + 1
           /\ IF node_id < CsrCapacity
              THEN /\ loom_node_bank' =
                        [loom_node_bank EXCEPT ![node_id] = loom_initialize_vector(hash)]
                   /\ loom_oob' = FALSE
              ELSE /\ loom_node_bank' = loom_node_bank
                   /\ loom_oob' = TRUE
           /\ call' = "loom_weave_node"
           /\ ret' = node_id
    /\ UNCHANGED <<loom_row_ptr, loom_col_idx, loom_values, loom_num_edges, loom_created>>
    /\ UNCHANGED <<esp32_vars, ard_vars, kernel, ext_vars>>

LoomCreateEdge(source, target, weight) ==
    /\ kernel = "csr"
    /\ ~loom_oob
    /\ source < loom_num_nodes /\ target < loom_num_nodes
    /\ \E T \in {loom_create_edge(LoomState, source, target, weight)} : LoomSet(T)
    /\ loom_num_edges' <= MaxCsrEdges
    /\ loom_created' = [loom_created EXCEPT ![<<source, target>>] = weight]
    /\ call' = "loom_create_edge"
    /\ ret' = 0
    /\ UNCHANGED <<loom_oob, esp32_vars, ard_vars, kernel, ext_vars>>

LoomCreateBidirectional(a, b, weight) ==
    /\ kernel = "csr"
    /\ ~loom_oob
    /\ a < loom_num_nodes /\ b < loom_num_nodes
    /\ loom_node_bank[a].pulls < MaxPulls /\ loom_node_bank[b].pulls < MaxPulls
    /\ \E T \in {loom_create_bidirectional(LoomState, a, b, weight)} : LoomSet(T)
    /\ loom_num_edges' <= MaxCsrEdges
    /\ loom_created' = [loom_created EXCEPT ![<<a, b>>] = weight, ![<<b, a>>] = weight]
    /\ call' = "loom_create_bidirectional"
    /\ ret' = 0
    /\ UNCHANGED <<loom_oob, esp32_vars, ard_vars, kernel, ext_vars>>

\* ========================================================================
\* Arithmetic of the ESP32 and Arduino kernels
\* ========================================================================

\* A float is modelled in fixed point: FP stands for 1.0f.
FP == 10 * 100

UINT8_MOD == 256
UINT16_MOD == 65536

\* a / b rounded to the nearest unit (b > 0): a float operation's rounding
RoundDiv(a, b) ==
    IF a >= 0 THEN (2 * a + b) \div (2 * b) ELSE -((2 * (-a) + b) \div (2 * b))

\* a / b truncated toward zero (b > 0): a C conversion from float to integer
TruncDiv(a, b) == IF a >= 0 THEN a \div b ELSE -((-a) \div b)

RECURSIVE IsqrtBetween(_, _, _)
IsqrtBetween(n, lo, hi) ==
    IF lo >= hi THEN lo
    ELSE LET mid == (lo + hi + 1) \div 2
         IN  IF mid * mid <= n THEN IsqrtBetween(n, mid, hi)
             ELSE IsqrtBetween(n, lo, mid - 1)

\* sqrtf of a sum of squares of fixed-point values, in fixed point
Sqrtf(n) == IsqrtBetween(n, 0, 46340)

\* (int8_t)(weight * 127.0f), for weight in [-1, 1]
ToInt8(weight) == TruncDiv(weight * 127, FP)

\* A node vector of the ESP32 and Arduino kernels, restricted to vectors whose
\* identity components are all equal (as initialize_vector writes them), whose
\* semantic components are all equal (one value drawn for all of them) and
\* whose connection and emotional components are 0: idv is the value of each
\* identity component, sem of each semantic component, act is
\* components[VEC_ACTIVATION].  Every operation of the kernels maps such
\* vectors to such vectors.
ZeroNodeVector == [idv |-> 0, sem |-> 0, act |-> 0]

\* normalize_vector over nId identity and nSem semantic components
NormalizeVector(v, nId, nSem) ==
    LET magnitude == Sqrtf(nId * v.idv * v.idv + nSem * v.sem * v.sem + v.act * v.act)
    IN  IF magnitude > 0
        THEN [idv |-> RoundDiv(v.idv * FP, magnitude),
              sem |-> RoundDiv(v.sem * FP, magnitude),
              act |-> RoundDiv(v.act * FP, magnitude)]
        ELSE v

\* the semantic step with the signs of the two updates exchanged
PullStepAway(a, b, rate) ==
    <<a - RoundDiv((b - a) * rate, FP * 10), b + RoundDiv((b - a) * rate, FP * 10)>>

\* One component of the semantic step of a pairwise update:
\* diff = b - a; a += diff * rate * 0.1; b -= diff * rate * 0.1
PullStep(a, b, rate) ==
    <<a + RoundDiv((b - a) * rate, FP * 10), b - RoundDiv((b - a) * rate, FP * 10)>>

\* The semantic step of hebbian_update_pair followed by the normalisation of
\* both vectors.  vec_a and vec_b alias when node_a = node_b.  (The emotional
\* step needs a positive product of emotional components, which are 0 here.)
HebbianUpdatePair(nodes, node_a, node_b, rate, nId, nSem) ==
    LET pulled == PullStep(nodes[node_a].sem, nodes[node_b].sem, rate)
        n1 == [nodes EXCEPT ![node_a].sem = pulled[1]]
        n2 == [n1 EXCEPT ![node_b].sem = @ + (pulled[2] - nodes[node_b].sem)]
        n3 == [n2 EXCEPT ![node_a] = NormalizeVector(@, nId, nSem)]
    IN  [n3 EXCEPT ![node_b] = NormalizeVector(@, nId, nSem)]

\* ========================================================================
\* ESP32 kernel
\* ========================================================================

\* ESP32_MAX_NODES (512), scaled down; ESP32_MAX_EDGES (2048) is four times
\* ESP32_MAX_NODES
ESP32_MAX_NODES == 2
ESP32_MAX_EDGES == 4 * ESP32_MAX_NODES
\* hebbian_update_pair calls in one behaviour
MaxPairUpdates == 1

ESP_OK == 0
ESP_ERR_NO_MEM == 257
ESP_ERR_INVALID_ARG == 258
ESP32_WEAVE_ERROR == 65535

EDGE_FLAG_BIDIRECTIONAL == 1
EDGE_FLAG_LEARNING == 8

\* values one semantic component is initialised to (Box-Muller on esp_random)
SemDraws == {400}
\* node ids handed to the ESP32 edge calls: every slot and one id past them
Esp32Ids == 0..ESP32_MAX_NODES
\* (weight, flags) handed to create_edge; weights handed to create_bidirectional
EdgeArgs == {[w |-> 500, f |-> EDGE_FLAG_LEARNING]}
BidirWeights == {900}
\* identifiers woven by the k-th weave call: any identifier into slot 0, the
\* same identifier into every other slot
Esp32Idents(k) == IF k = 0 THEN Idents ELSE {"a"}

esp32_loom_hash_string(str) == ((5381 * 32) + 5381) + CharCode(str)

\* esp32_loom_initialize_vector: identity from the hash, semantic from the
\* random draw z, activation 0, connection components for draws of
\* esp_random() that are multiples of 1000, then normalised (4 identity, 16
\* semantic dims)
esp32_loom_initialize_vector(hash, z) ==
    NormalizeVector([idv |-> RoundDiv((hash % 1000) * FP, 500) - FP,
                     sem |-> z, act |-> 0], 4, 16)

Esp32State == [num_nodes |-> esp32_num_nodes, nodes |-> esp32_nodes,
               num_edges |-> esp32_num_edges, edges |-> esp32_edges,
               pulls |-> esp32_pulls, sources |-> esp32_sources,
               num_hyperedges |-> esp32_num_hyperedges,
               hyperedges |-> esp32_hyperedges]

Esp32Set(E) ==
    /\ esp32_num_nodes' = E.num_nodes
    /\ esp32_nodes' = E.nodes
    /\ esp32_num_edges' = E.num_edges
    /\ esp32_edges' = E.edges
    /\ esp32_pulls' = E.pulls
    /\ esp32_sources' = E.sources
    /\ esp32_num_hyperedges' = E.num_hyperedges
    /\ esp32_hyperedges' = E.hyperedges

\* esp32_loom_init: memset to 0
Esp32Init ==
    /\ esp32_num_nodes = 0
    /\ esp32_nodes = [i \in 0..(ESP32_MAX_NODES - 1) |-> ZeroNodeVector]
    /\ esp32_num_edges = 0
    /\ esp32_edges = <<>>
    /\ esp32_weaves = 0
    /\ esp32_pulls = 0
    /\ esp32_sources = <<>>
    /\ esp32_num_hyperedges = 0
    /\ esp32_hyperedges = <<>>
    /\ esp32_hyper_args = <<>>
    /\ esp32_computes = 0
    /\ esp32_cycles_executed = 0
    /\ esp32_emergence_metric = [nan |-> FALSE, v |-> 0]
    /\ esp32_phases = <<>>

\* esp32_loom_weave_node
esp32_loom_weave_node(E, hash, z) ==
    IF E.num_nodes >= ESP32_MAX_NODES
    THEN [E |-> E, ret |-> ESP32_WEAVE_ERROR]
    ELSE [E |-> [E EXCEPT !.num_nodes = (E.num_nodes + 1) % UINT16_MOD,
                          !.nodes[E.num_nodes] = esp32_loom_initialize_vector(hash, z)],
          ret |-> E.num_nodes]

\* esp32_loom_create_edge without the check of the ids
esp32_loom_create_edge_unchecked(E, source, target, weight, flags) ==
    LET found == {i \in 1..E.num_edges : E.edges[i].target = target}
    IN  IF found # {}
        THEN [E |-> [E EXCEPT !.edges[Min(found)] =
                       [target |-> target, weight |-> ToInt8(weight), flags |-> flags]],
              ret |-> ESP_OK]
        ELSE [E |-> [E EXCEPT
                       !.edges = Append(E.edges,
                          [target |-> target, weight |-> ToInt8(weight), flags |-> flags]),
                       !.num_edges = (E.num_edges + 1) % UINT16_MOD,
                       !.sources = Append(E.sources, source)],
              ret |-> ESP_OK]

\* esp32_loom_create_edge checking the target id only
esp32_loom_create_edge_target_checked(E, source, target, weight, flags) ==
    IF target >= E.num_nodes
    THEN [E |-> E, ret |-> ESP_ERR_INVALID_ARG]
    ELSE esp32_loom_create_edge_unchecked(E, source, target, weight, flags)

\* esp32_loom_create_edge: the capacity check, the id check, the scan of all
\* edges for one with this target (an edge records no source), the append.
esp32_loom_create_edge(E, source, target, weight, flags) ==
    IF E.num_edges >= ESP32_MAX_EDGES
    THEN [E |-> E, ret |-> ESP_ERR_NO_MEM]
    ELSE IF source >= E.num_nodes \/ target >= E.num_nodes
    THEN [E |-> E, ret |-> ESP_ERR_INVALID_ARG]
    ELSE LET found == {i \in 1..E.num_edges : E.edges[i].target = target}
         IN  IF found # {}
             THEN [E |-> [E EXCEPT !.edges[Min(found)] =
                            [target |-> target, weight |-> ToInt8(weight), flags |-> flags]],
                   ret |-> ESP_OK]
             ELSE [E |-> [E EXCEPT
                            !.edges = Append(E.edges,
                               [target |-> target, weight |-> ToInt8(weight), flags |-> flags]),
                            !.num_edges = (E.num_edges + 1) % UINT16_MOD,
                            !.sources = Append(E.sources, source)],
                   ret |-> ESP_OK]

\* esp32_loom_hebbian_update_pair
esp32_loom_hebbian_update_pair(E, node_a, node_b, rate) ==
    [E EXCEPT !.nodes = HebbianUpdatePair(E.nodes, node_a, node_b, rate, 4, 16),
              !.pulls = E.pulls + 1]

\* esp32_loom_create_bidirectional
esp32_loom_create_bidirectional(E, a, b, weight) ==
    LET r1 == esp32_loom_create_edge(E, a, b, weight, EDGE_FLAG_BIDIRECTIONAL)
        r2 == esp32_loom_create_edge(r1.E, b, a, weight, EDGE_FLAG_BIDIRECTIONAL)
    IN  IF r1.ret # ESP_OK THEN r1
        ELSE IF r2.ret # ESP_OK THEN r2
        ELSE [E |-> esp32_loom_hebbian_update_pair(r2.E, a, b, RoundDiv(weight, 10)),
              ret |-> ESP_OK]

\* ---- hyperedges ----

\* ESP32_MAX_HYPEREDGES (128), scaled down
ESP32_MAX_HYPEREDGES == 2
\* compute_hyperedge calls in one behaviour
MaxComputes == 2

ESP32_HYPEREDGE_ERROR == 255
PROCESSOR_AND == 0
PROCESSOR_OR == 1
PROCESSOR_THRESHOLD == 3
PROCESSOR_RESONANCE == 4
PROCESSOR_CUSTOM == 7
\* ACTIVATION_THRESHOLD 0.1f and MAX_VECTOR_MAGNITUDE 1.0f, in fixed point
ACTIVATION_THRESHOLD == 100
MAX_VECTOR_MAGNITUDE == FP

\* participant arrays handed to create_hyperedge (count is the array's
\* length) and the processor types handed to it
ParticipantLists == {<<>>, <<0, 1>>, <<1, 0, 1, 1>>, <<0, 1, 0, 1, 0, 1, 0>>}
ProcessorTypes == {PROCESSOR_AND, PROCESSOR_OR, PROCESSOR_RESONANCE, PROCESSOR_CUSTOM}
\* activations a caller writes into a node
ActivationValues == {900}

\* A float that may be NaN: processor_state and the values it is computed from
F(v) == [nan |-> FALSE, v |-> v]
NaN == [nan |-> TRUE, v |-> 0]

\* sum / n in float arithmetic: 0.0f / 0 is NaN (sum is 0 whenever n is 0)
FDiv(sum, n) == IF n = 0 THEN NaN ELSE F(RoundDiv(sum, n))

\* fminf(x, c): the other argument when one is NaN
Fminf(x, c) == IF x.nan THEN F(c) ELSE F(IF x.v < c THEN x.v ELSE c)

\* x > c: false when x is NaN
FGreater(x, c) == ~x.nan /\ x.v > c

\* the new value taken as the state, without the decay
FDecayReplace(state, new_state) == new_state

\* state * 0.9f + new_state * 0.1f
FDecay(state, new_state) ==
    IF state.nan \/ new_state.nan THEN NaN
    ELSE F(RoundDiv(state.v * 9, 10) + RoundDiv(new_state.v, 10))

\* The bytes of count uint16_t values, little endian.
MemcpyBytes(participants, count) ==
    [k \in 1..(2 * count) |->
        IF k % 2 = 1 THEN participants[(k + 1) \div 2] % UINT8_MOD
        ELSE participants[k \div 2] \div UINT8_MOD]

\* memcpy(hedge->participants, participants, count * sizeof(uint16_t)):
\* participants[6] is six bytes at offset 1 of Esp32Hyperedge, followed by
\* num_participants (offset 7) and processor_type (offset 8), by three bytes
\* of padding and by processor_state (offset 12).
MemcpyParticipants(hedge, participants, count) ==
    LET bytes == MemcpyBytes(participants, count)
    IN  [hedge EXCEPT
           !.participants = [j \in 1..6 |-> IF j <= 2 * count THEN bytes[j] ELSE @[j]],
           !.num_participants = IF 2 * count >= 7 THEN bytes[7] ELSE @,
           !.processor_type = IF 2 * count >= 8 THEN bytes[8] ELSE @]

\* the state the switch of create_hyperedge assigns
InitialProcessorState(processor_type) ==
    IF processor_type = PROCESSOR_RESONANCE THEN F(FP \div 2) ELSE F(0)

\* esp32_loom_create_hyperedge without the check of count
esp32_loom_create_hyperedge_unbounded(E, participants, count, processor_type) ==
    IF E.num_hyperedges >= ESP32_MAX_HYPEREDGES
    THEN [E |-> E, ret |-> ESP32_HYPEREDGE_ERROR]
    ELSE LET hyperedge_id == E.num_hyperedges % UINT8_MOD
             hedge == [id |-> hyperedge_id,
                       participants |-> [j \in 1..6 |-> 0],
                       num_participants |-> count,
                       processor_type |-> processor_type,
                       processor_state |-> InitialProcessorState(processor_type),
                       activation_count |-> 0]
         IN  [E |-> [E EXCEPT !.num_hyperedges = (E.num_hyperedges + 1) % UINT16_MOD,
                              !.hyperedges = Append(E.hyperedges, hedge)],
              ret |-> hyperedge_id]

\* esp32_loom_create_hyperedge: the fields are set, the participants are
\* copied over them, and the state is set from the processor_type argument.
esp32_loom_create_hyperedge(E, participants, count, processor_type) ==
    IF E.num_hyperedges >= ESP32_MAX_HYPEREDGES \/ count > 6
    THEN [E |-> E, ret |-> ESP32_HYPEREDGE_ERROR]
    ELSE LET hyperedge_id == E.num_hyperedges % UINT8_MOD
             fields == [id |-> hyperedge_id,
                        participants |-> [j \in 1..6 |-> 0],
                        num_participants |-> count,
                        processor_type |-> processor_type,
                        processor_state |-> F(0),
                        activation_count |-> 0]
             copied == MemcpyParticipants(fields, participants, count)
             hedge == [copied EXCEPT
                         !.processor_state = InitialProcessorState(processor_type)]
         IN  [E |-> [E EXCEPT !.num_hyperedges = (E.num_hyperedges + 1) % UINT16_MOD,
                              !.hyperedges = Append(E.hyperedges, hedge)],
              ret |-> hyperedge_id]

RECURSIVE SeqSum(_)
SeqSum(q) == IF q = <<>> THEN 0 ELSE Head(q) + SeqSum(Tail(q))

Max(S) == CHOOSE x \in S : \A y \in S : x >= y

\* the pairs (i, j), i # j, in the order of the two nested loops
RECURSIVE ParticipantPairs(_, _, _)
ParticipantPairs(n, i, j) ==
    IF i >= n THEN <<>>
    ELSE IF j >= n THEN ParticipantPairs(n, i + 1, 0)
    ELSE IF i = j THEN ParticipantPairs(n, i, j + 1)
    ELSE <<(<<i, j>>)>> \o ParticipantPairs(n, i, j + 1)

\* the back-propagation loops of compute_hyperedge
RECURSIVE BackPropagate(_, _, _, _)
BackPropagate(E, hedge, pairs, rate) ==
    IF pairs = <<>> THEN E
    ELSE BackPropagate(
            esp32_loom_hebbian_update_pair(E,
                hedge.participants[Head(pairs)[1] + 1],
                hedge.participants[Head(pairs)[2] + 1], rate),
            hedge, Tail(pairs), rate)

\* esp32_loom_compute_hyperedge
esp32_loom_compute_hyperedge(E, hyperedge_id) ==
    LET hedge == E.hyperedges[hyperedge_id + 1]
        n == hedge.num_participants
        activation == [i \in 1..n |-> E.nodes[hedge.participants[i]].act]
        activation_sum == SeqSum(activation)
        max_activation == Max({0} \cup {activation[i] : i \in 1..n})
        active_count == Cardinality({i \in 1..n : activation[i] > ACTIVATION_THRESHOLD})
        average_activation == FDiv(activation_sum, n)
        new_state ==
            CASE hedge.processor_type = PROCESSOR_AND ->
                    IF active_count = n THEN average_activation ELSE F(0)
              [] hedge.processor_type = PROCESSOR_OR ->
                    IF active_count > 0 THEN F(max_activation) ELSE F(0)
              [] hedge.processor_type = PROCESSOR_RESONANCE ->
                    Fminf(IF average_activation.nan THEN NaN
                          ELSE F(RoundDiv(average_activation.v * (10 + active_count), 10)),
                          MAX_VECTOR_MAGNITUDE)
              [] hedge.processor_type = PROCESSOR_THRESHOLD ->
                    IF active_count >= 2 THEN average_activation ELSE F(0)
              [] OTHER -> average_activation
        processor_state == FDecay(hedge.processor_state, new_state)
        decayed == [E EXCEPT !.hyperedges[hyperedge_id + 1].processor_state = processor_state]
    IN  IF FGreater(processor_state, ACTIVATION_THRESHOLD)
        THEN BackPropagate(
                [decayed EXCEPT !.hyperedges[hyperedge_id + 1].activation_count =
                                    (@ + 1) % UINT16_MOD],
                hedge, ParticipantPairs(n, 0, 0), RoundDiv(processor_state.v, 100))
        ELSE decayed

\* ---- actions ----

Esp32Weave(identifier, z) ==
    /\ kernel = "esp32"
    /\ \E r \in {esp32_loom_weave_node(Esp32State, esp32_loom_hash_string(identifier), z)} :
           /\ Esp32Set(r.E)
           /\ ret' = r.ret
           /\ esp32_weaves' = IF r.ret = ESP32_WEAVE_ERROR THEN esp32_weaves
                              ELSE esp32_weaves + 1
    /\ call' = "esp32_loom_weave_node"
    /\ UNCHANGED <<esp32_hyper_args, esp32_computes, loom_vars, ard_vars, kernel, ext_vars>>

Esp32CreateEdge(source, target, weight, flags) ==
    /\ kernel = "esp32"
    /\ \E r \in {esp32_loom_create_edge(Esp32State, source, target, weight, flags)} :
           Esp32Set(r.E) /\ ret' = r.ret
    /\ call' = "esp32_loom_create_edge"
    /\ UNCHANGED <<esp32_weaves, esp32_hyper_args, esp32_computes>>
    /\ UNCHANGED <<loom_vars, ard_vars, kernel, ext_vars>>

Esp32CreateBidirectional(a, b, weight) ==
    /\ kernel = "esp32"
    /\ \E r \in {esp32_loom_create_bidirectional(Esp32State, a, b, weight)} :
           Esp32Set(r.E) /\ ret' = r.ret
    /\ esp32_pulls' <= MaxPairUpdates
    /\ call' = "esp32_loom_create_bidirectional"
    /\ UNCHANGED <<esp32_weaves, esp32_hyper_args, esp32_computes>>
    /\ UNCHANGED <<loom_vars, ard_vars, kernel, ext_vars>>

\* a caller's write to nodes[node].components[VEC_ACTIVATION]
Esp32SetActivation(node, value) ==
    /\ kernel = "esp32"
    /\ node < esp32_num_nodes
    /\ esp32_nodes' = [esp32_nodes EXCEPT ![node].act = value]
    /\ call' = "set_activation"
    /\ ret' = 0
    /\ UNCHANGED <<esp32_num_nodes, esp32_num_edges, esp32_edges, esp32_weaves,
                   esp32_pulls, esp32_sources, esp32_hyper_vars>>
    /\ UNCHANGED <<loom_vars, ard_vars, kernel, ext_vars>>

Esp32CreateHyperedge(participants, count, processor_type) ==
    /\ kernel = "esp32"
    /\ \E r \in {esp32_loom_create_hyperedge(Esp32State, participants, count,
                                            processor_type)} :
           /\ Esp32Set(r.E)
           /\ ret' = r.ret
           /\ esp32_hyper_args' =
                 IF r.ret = ESP32_HYPEREDGE_ERROR THEN esp32_hyper_args
                 ELSE Append(esp32_hyper_args,
                             [count |-> count, processor_type |-> processor_type])
    /\ call' = "esp32_loom_create_hyperedge"
    /\ UNCHANGED <<esp32_weaves, esp32_computes, loom_vars, ard_vars, kernel, ext_vars>>

Esp32ComputeHyperedge(hyperedge_id) ==
    /\ kernel = "esp32"
    /\ hyperedge_id < esp32_num_hyperedges
    /\ esp32_computes < MaxComputes
    /\ \E E \in {esp32_loom_compute_hyperedge(Esp32State, hyperedge_id)} : Esp32Set(E)
    /\ esp32_computes' = esp32_computes + 1
    /\ call' = "esp32_loom_compute_hyperedge"
    /\ ret' = 0
    /\ UNCHANGED <<esp32_weaves, esp32_hyper_args, loom_vars, ard_vars, kernel, ext_vars>>

\* ========================================================================
\* Arduino library (class Esp32Loom)
\* ========================================================================

ARDUINO_MAX_NODES == 256
ARDUINO_MAX_EDGES == 1024
ARDUINO_WEAVE_ERROR == 255

\* successful weave calls in one behaviour: past the range of the uint8_t counter
MaxArdWeaves == 258
\* edges stored in one behaviour
MaxArdEdges == 2
\* nodes woven by the Arduino library in a behaviour of SpecEmbedded
MaxEmbeddedWeaves == 3

\* node ids handed to the Arduino edge calls
ArdIds == {0, 1, UINT8_MOD - 1}
\* (weight, flags) handed to create_edge; weights handed to create_bidirectional
ArdEdgeArgs == {[w |-> 500, f |-> EDGE_FLAG_LEARNING]}
ArdBidirWeights == {900}
\* identifiers woven by the k-th weave call: any identifier into slot 0, the
\* same identifier into every other slot
ArdIdents(k) == IF k % ARDUINO_MAX_NODES = 0 THEN Idents ELSE {"a"}

\* get_hash_string: djb2 in a uint16_t
Esp32Loom_get_hash_string(str) == (((5381 * 32) + 5381) + CharCode(str)) % UINT16_MOD

\* The value the generator seeded with hash gives the semantic components
\* (z * scale), as a function of the seed.
Esp32Loom_random_semantic(hash) == IF hash % 2 = 0 THEN 400 ELSE -300

\* initialize_vector: identity from the hash, semantic from the generator
\* seeded with the hash, the rest 0, then normalised (4 identity, 8 semantic)
Esp32Loom_initialize_vector(hash) ==
    NormalizeVector([idv |-> RoundDiv((hash % 1000) * FP, 500) - FP,
                     sem |-> Esp32Loom_random_semantic(hash), act |-> 0], 4, 8)

ArdState == [num_nodes |-> ard_num_nodes, nodes |-> ard_nodes,
             num_edges |-> ard_num_edges, edges |-> ard_edges,
             pulls |-> ard_pulls]

ArdSet(A) ==
    /\ ard_num_nodes' = A.num_nodes
    /\ ard_nodes' = A.nodes
    /\ ard_num_edges' = A.num_edges
    /\ ard_edges' = A.edges
    /\ ard_pulls' = A.pulls
    /\ A.pulls <= MaxPairUpdates
    /\ Len(A.edges) <= MaxArdEdges

\* Esp32Loom::begin: memset to 0.  ard_nodes holds the slots of nodes[] that
\* were written since; every other slot of nodes[0 .. ARDUINO_MAX_NODES) is 0.
ArdInit ==
    /\ ard_num_nodes = 0
    /\ ard_nodes = <<>>
    /\ ard_num_edges = 0
    /\ ard_edges = <<>>
    /\ ard_weaves = 0
    /\ ard_pulls = 0

\* Esp32Loom::weave_node: num_nodes is a uint8_t, so the comparison with
\* ARDUINO_MAX_NODES is made on a value below 256 and num_nodes++ wraps.
Esp32Loom_weave_node(A, identifier) ==
    IF A.num_nodes >= ARDUINO_MAX_NODES
    THEN [A |-> A, ret |-> ARDUINO_WEAVE_ERROR]
    ELSE LET node_id == A.num_nodes
             hash == Esp32Loom_get_hash_string(identifier)
         IN  [A |-> [A EXCEPT !.num_nodes = (A.num_nodes + 1) % UINT8_MOD,
                              !.nodes = [i \in DOMAIN A.nodes \cup {node_id} |->
                                           IF i = node_id
                                           THEN Esp32Loom_initialize_vector(hash)
                                           ELSE A.nodes[i]]],
              ret |-> node_id]

\* Esp32Loom::create_edge: returns true (1) or false (0); always appends
Esp32Loom_create_edge(A, source, target, weight, flags) ==
    IF A.num_edges >= ARDUINO_MAX_EDGES
    THEN [A |-> A, ret |-> 0]
    ELSE IF source >= A.num_nodes \/ target >= A.num_nodes
    THEN [A |-> A, ret |-> 0]
    ELSE [A |-> [A EXCEPT
                   !.edges = Append(A.edges,
                      [target |-> target, weight |-> ToInt8(weight), flags |-> flags]),
                   !.num_edges = (A.num_edges + 1) % UINT8_MOD],
          ret |-> 1]

\* Esp32Loom::hebbian_update_pair
Esp32Loom_hebbian_update_pair(A, node_a, node_b, rate) ==
    [A EXCEPT !.nodes = HebbianUpdatePair(A.nodes, node_a, node_b, rate, 4, 8),
              !.pulls = A.pulls + 1]

\* Esp32Loom::create_bidirectional
Esp32Loom_create_bidirectional(A, a, b, weight) ==
    LET r1 == Esp32Loom_create_edge(A, a, b, weight, EDGE_FLAG_BIDIRECTIONAL)
        r2 == Esp32Loom_create_edge(r1.A, b, a, weight, EDGE_FLAG_BIDIRECTIONAL)
    IN  IF r1.ret = 0 THEN r1
        ELSE IF r2.ret = 0 THEN r2
        ELSE [A |-> Esp32Loom_hebbian_update_pair(r2.A, a, b, RoundDiv(weight, 10)),
              ret |-> 1]

\* ---- actions ----

ArdWeave(identifier) ==
    /\ kernel = "arduino"
    /\ ard_weaves < MaxArdWeaves
    /\ \E r \in {Esp32Loom_weave_node(ArdState, identifier)} :
           /\ ArdSet(r.A)
           /\ ret' = r.ret
    /\ ard_weaves' = IF ard_num_nodes >= ARDUINO_MAX_NODES THEN ard_weaves
                      ELSE ard_weaves + 1
    /\ call' = "Esp32Loom::weave_node"
    /\ UNCHANGED <<loom_vars, esp32_vars, kernel, ext_vars>>

ArdCreateEdge(source, target, weight, flags) ==
    /\ kernel = "arduino"
    /\ \E r \in {Esp32Loom_create_edge(ArdState, source, target, weight, flags)} :
           ArdSet(r.A) /\ ret' = r.ret
    /\ call' = "Esp32Loom::create_edge"
    /\ UNCHANGED <<ard_weaves, loom_vars, esp32_vars, kernel, ext_vars>>

ArdCreateBidirectional(a, b, weight) ==
    /\ kernel = "arduino"
    /\ \E r \in {Esp32Loom_create_bidirectional(ArdState, a, b, weight)} :
           ArdSet(r.A) /\ ret' = r.ret
    /\ call' = "Esp32Loom::create_bidirectional"
    /\ UNCHANGED <<ard_weaves, loom_vars, esp32_vars, kernel, ext_vars>>

\* ========================================================================
\* The experience logs of the ESP32 kernel and of the Arduino library
\* ========================================================================

\* ESP32_EXPERIENCE_BUFFER (256) and ARDUINO_EXPERIENCE_BUFFER (128), scaled
\* down
ESP32_EXPERIENCE_BUFFER == 3
ARDUINO_EXPERIENCE_BUFFER == 2
\* record_experience calls in one behaviour
MaxRecords == 5

\* Esp32Experience: uint32_t timestamp at offset 0, activated_nodes[8] at 4,
\* sensory_input[4] at 12, emotional_valence at 16, prediction_error at 17,
\* two bytes of padding; sizeof is 20
Esp32ExperienceLayout ==
    [size |-> 20, activated |-> 4, sensory |-> 12, sensory_len |-> 4,
     valence |-> 16, error |-> 17]

\* ArduinoExperience: uint16_t timestamp at offset 0, activated_nodes[4] at
\* 2, sensory_input[2] at 6, emotional_valence at 8, prediction_error at 9;
\* sizeof is 10
ArduinoExperienceLayout ==
    [size |-> 10, activated |-> 2, sensory |-> 6, sensory_len |-> 2,
     valence |-> 8, error |-> 9]

\* the numbers of activated nodes a caller records, the array of that many
\* node ids, the sensor bytes and the valence
ExperienceCounts == {2, 8, 17}
ActivatedNodes(count) == [i \in 1..count |-> 100 + i]
SensoryData == <<11, 12, 13, 14>>
Valences == {-3}

\* memcpy(mem + dst, src, n) on an array of bytes; the bytes that fall past
\* the array are not kept
Memcpy(mem, dst, src, n) ==
    [a \in DOMAIN mem |-> IF a >= dst /\ a < dst + n THEN src[a - dst + 1] ELSE mem[a]]

\* the bytes of a width-byte unsigned integer, little endian
LittleEndian(value, width) ==
    [k \in 1..width |->
        IF k = 1 THEN value % UINT8_MOD
        ELSE IF k = 2 THEN (value \div UINT8_MOD) % UINT8_MOD
        ELSE 0]

\* The stores of record_experience into the entry at index: timestamp,
\* emotional_valence, prediction_error, then the copy of copy_count node ids
\* and the copy of the sensor bytes.  mem is the array of entries as bytes.
RecordExperience(mem, L, index, timestamp, activated_nodes, copy_count, sensory_data, valence) ==
    LET base == index * L.size
        m1 == Memcpy(mem, base, LittleEndian(timestamp, L.activated), L.activated)
        m2 == [m1 EXCEPT ![base + L.valence] = valence % UINT8_MOD,
                         ![base + L.error] = 0]
        m3 == Memcpy(m2, base + L.activated, activated_nodes, copy_count)
    IN  Memcpy(m3, base + L.sensory, sensory_data, L.sensory_len)

\* esp32_loom_record_experience: count bytes are copied
esp32_loom_record_experience(X, timestamp, activated_nodes, count, sensory_data, valence) ==
    [buffer |-> RecordExperience(X.buffer, Esp32ExperienceLayout, X.index, timestamp,
                                 activated_nodes, count, sensory_data, valence),
     oob |-> X.oob \/ (X.index * Esp32ExperienceLayout.size
                       + Esp32ExperienceLayout.activated + count
                       > ESP32_EXPERIENCE_BUFFER * Esp32ExperienceLayout.size),
     index |-> (X.index + 1) % ESP32_EXPERIENCE_BUFFER]

\* Esp32Loom::record_experience: min(count, 4) bytes are copied
Esp32Loom_record_experience(X, timestamp, activated_nodes, count, sensory_data, valence) ==
    [buffer |-> RecordExperience(X.buffer, ArduinoExperienceLayout, X.index, timestamp,
                                 activated_nodes, Min({count, 4}), sensory_data, valence),
     index |-> (X.index + 1) % ARDUINO_EXPERIENCE_BUFFER]

\* memset to 0 in esp32_loom_init and in Esp32Loom::begin
ExperienceInit ==
    /\ esp32_experience_index = 0
    /\ esp32_experience_buffer =
          [a \in 0..(ESP32_EXPERIENCE_BUFFER * Esp32ExperienceLayout.size - 1) |-> 0]
    /\ esp32_experience_oob = FALSE
    /\ esp32_experience_calls = 0
    /\ ard_experience_index = 0
    /\ ard_experience_buffer =
          [a \in 0..(ARDUINO_EXPERIENCE_BUFFER * ArduinoExperienceLayout.size - 1) |-> 0]
    /\ ard_experience_calls = 0

\* the timestamp is the number of the call: time passes between the calls
Esp32RecordExperience(count, valence) ==
    /\ kernel = "esp32"
    /\ esp32_experience_calls < MaxRecords
    /\ \E r \in {esp32_loom_record_experience(
                    [buffer |-> esp32_experience_buffer, oob |-> esp32_experience_oob,
                     index |-> esp32_experience_index],
                    esp32_experience_calls + 1, ActivatedNodes(count), count,
                    SensoryData, valence)} :
           /\ esp32_experience_buffer' = r.buffer
           /\ esp32_experience_oob' = r.oob
           /\ esp32_experience_index' = r.index
    /\ esp32_experience_calls' = esp32_experience_calls + 1
    /\ call' = "esp32_loom_record_experience"
    /\ ret' = 0
    /\ UNCHANGED <<ard_experience_index, ard_experience_buffer, ard_experience_calls>>
    /\ UNCHANGED <<loom_vars, esp32_vars, ard_vars, kernel, ext_but_exp>>

ArdRecordExperience(count, valence) ==
    /\ kernel = "arduino"
    /\ ard_experience_calls < MaxRecords
    /\ \E r \in {Esp32Loom_record_experience(
                    [buffer |-> ard_experience_buffer, index |-> ard_experience_index],
                    ard_experience_calls + 1, ActivatedNodes(count), count,
                    SensoryData, valence)} :
           /\ ard_experience_buffer' = r.buffer
           /\ ard_experience_index' = r.index
    /\ ard_experience_calls' = ard_experience_calls + 1
    /\ call' = "Esp32Loom::record_experience"
    /\ ret' = 0
    /\ UNCHANGED <<esp32_experience_index, esp32_experience_buffer, esp32_experience_oob,
                   esp32_experience_calls>>
    /\ UNCHANGED <<loom_vars, esp32_vars, ard_vars, kernel, ext_but_exp>>

\* ========================================================================
\* Functions of their arguments alone
\* ========================================================================

\* ---- the semantic step of a pairwise update ----

\* semantic zones (two of their components) and rates: 0.05, 0.1, 1, 5, 10, 20
PullZones == {<<0, 0>>, <<230, 230>>, <<-500, 3>>, <<500, -400>>, <<233, 230>>}
PullRates == {50, 100, 1000, 5000, 10000, 20000}
PullInputs == [a : {<<0, 0>>, <<230, 230>>, <<-500, 3>>}, b : PullZones, rate : PullRates]

\* the loop over the components of the semantic zones
SemanticStep(a, b, rate) ==
    [a |-> [i \in DOMAIN a |-> PullStep(a[i], b[i], rate)[1]],
     b |-> [i \in DOMAIN b |-> PullStep(a[i], b[i], rate)[2]]]

\* ---- LoomTensor ----

LOOM_DEVICE_CPU == 0
LOOM_DEVICE_CUDA == 1
LOOM_DEVICE_METAL == 2
LOOM_DEVICE_HIP == 3

RECURSIVE SeqProduct(_)
SeqProduct(q) == IF q = <<>> THEN 1 ELSE Head(q) * SeqProduct(Tail(q))

\* loom_tensor_create: elem_count from dims; for the CPU device a zeroed
\* buffer of elem_count floats, for every other device data is NULL
\* (has_data FALSE).  data[i + 1] is element i of the buffer.
loom_tensor_create(device, dims) ==
    [device |-> device, dims |-> dims, elem_count |-> SeqProduct(dims),
     has_data |-> device = LOOM_DEVICE_CPU,
     data |-> IF device = LOOM_DEVICE_CPU THEN [i \in 1..SeqProduct(dims) |-> 0]
              ELSE <<>>]

\* a tensor the host filled through loom_tensor_data
HostTensor(dims, data) == [loom_tensor_create(LOOM_DEVICE_CPU, dims) EXCEPT !.data = data]

\* loom_tensor_fill: nothing without data
loom_tensor_fill(t, value) ==
    IF ~t.has_data THEN t ELSE [t EXCEPT !.data = [i \in 1..t.elem_count |-> value]]

\* loom_tensor_copy: nothing when the counts differ or either has no data
loom_tensor_copy(dst, src) ==
    IF dst.elem_count # src.elem_count THEN dst
    ELSE IF dst.has_data /\ src.has_data THEN [dst EXCEPT !.data = src.data]
    ELSE dst

\* loom_tensor_gemm: M and K are A's dims, N is B's second dim, whatever
\* transA and transB are; a[i*K + k], b[k*N + j] and c[i*N + j] are accessed
\* without a test of the data pointers or of the sizes of B and C.  An access
\* through a null pointer or past a buffer is a fault.
loom_tensor_gemm(A, B, C, transA, transB, alpha, beta) ==
    LET M == A.dims[1]
        K == A.dims[2]
        N == B.dims[2]
        accesses_c == M > 0 /\ N > 0
        accesses_ab == accesses_c /\ K > 0
        null_data == \/ accesses_ab /\ (~A.has_data \/ ~B.has_data)
                     \/ accesses_c /\ ~C.has_data
        fault == \/ null_data
                 \/ accesses_ab /\ K * N > B.elem_count
                 \/ accesses_c /\ M * N > C.elem_count
    IN  IF fault THEN [fault |-> TRUE, null_data |-> null_data, c |-> C.data]
        ELSE [fault |-> FALSE, null_data |-> FALSE,
              c |-> [x \in 1..Len(C.data) |->
                       IF x - 1 < M * N
                       THEN alpha * SeqSum([k \in 1..K |->
                                   A.data[((x - 1) \div N) * K + k]
                                   * B.data[(k - 1) * N + ((x - 1) % N) + 1]])
                            + beta * C.data[x]
                       ELSE C.data[x]]]

\* operands of conforming shapes: op(A) is M x K, op(B) is K x N, C is M x N
GemmSquare ==
    [A : {HostTensor(<<2, 2>>, <<1, 2, 3, 4>>)},
     B : {HostTensor(<<2, 2>>, <<5, 6, 7, 8>>), HostTensor(<<2, 2>>, <<1, 0, 0, 1>>)},
     C : {HostTensor(<<2, 2>>, <<0, 0, 0, 0>>), HostTensor(<<2, 2>>, <<1, 2, 3, 4>>)},
     transA : {0, 1}, transB : {0, 1}, alpha : {1, 2}, beta : {0, 1}]
GemmOblong ==
    [A : {HostTensor(<<1, 2>>, <<1, 2>>)},
     B : {HostTensor(<<2, 3>>, <<1, 2, 3, 4, 5, 6>>)},
     C : {HostTensor(<<1, 3>>, <<1, 1, 1>>)},
     transA : {0}, transB : {0}, alpha : {1, 2}, beta : {0, 1}]
GemmInputs == GemmSquare \cup GemmOblong

MaxTensors == 2
MaxGemms == 1
TensorDevices == {LOOM_DEVICE_CPU, LOOM_DEVICE_CUDA, LOOM_DEVICE_METAL, LOOM_DEVICE_HIP}
TensorDims == {<<1, 1>>, <<1, 2>>}
TensorHandles == 1..Len(tensors)

TensorInit ==
    /\ tensors = <<>>
    /\ tensor_fault = "none"
    /\ tensor_args = <<>>
    /\ tensor_gemms = 0

TensorFrame == UNCHANGED <<loom_vars, esp32_vars, ard_vars, kernel, ext_but_tensor>>

TensorCreate(device, dims) ==
    /\ kernel = "tensor"
    /\ tensor_fault = "none"
    /\ Len(tensors) < MaxTensors
    /\ tensors' = Append(tensors, loom_tensor_create(device, dims))
    /\ tensor_args' = <<Len(tensors) + 1>>
    /\ call' = "loom_tensor_create"
    /\ ret' = Len(tensors) + 1
    /\ UNCHANGED <<tensor_fault, tensor_gemms>>
    /\ TensorFrame

TensorFill(t, value) ==
    /\ kernel = "tensor"
    /\ tensor_fault = "none"
    /\ tensors' = [tensors EXCEPT ![t] = loom_tensor_fill(tensors[t], value)]
    /\ tensor_args' = <<t>>
    /\ call' = "loom_tensor_fill"
    /\ ret' = 0
    /\ UNCHANGED <<tensor_fault, tensor_gemms>>
    /\ TensorFrame

TensorCopy(dst, src) ==
    /\ kernel = "tensor"
    /\ tensor_fault = "none"
    /\ tensors' = [tensors EXCEPT ![dst] = loom_tensor_copy(tensors[dst], tensors[src])]
    /\ tensor_args' = <<dst, src>>
    /\ call' = "loom_tensor_copy"
    /\ ret' = 0
    /\ UNCHANGED <<tensor_fault, tensor_gemms>>
    /\ TensorFrame

TensorGemm(A, B, C, alpha, beta) ==
    /\ kernel = "tensor"
    /\ tensor_fault = "none"
    /\ tensor_gemms < MaxGemms
    /\ \E r \in {loom_tensor_gemm(tensors[A], tensors[B], tensors[C], 0, 0, alpha, beta)} :
          /\ tensors' = [tensors EXCEPT ![C].data = r.c]
          /\ tensor_fault' = IF r.null_data THEN "null_data"
                             ELSE IF r.fault THEN "out_of_bounds" ELSE "none"
    /\ tensor_args' = <<A, B, C>>
    /\ tensor_gemms' = tensor_gemms + 1
    /\ call' = "loom_tensor_gemm"
    /\ ret' = 0
    /\ TensorFrame

\* ---- CSR kernel: the Poincare-ball zone of a woven vector ----

MaxIdentLen == 3
\* character codes of a c e h i o t
IdentChars == {97, 99, 101, 104, 105, 111, 116}
PoincareIdentifiers == UNION {[1..n -> IdentChars] : n \in 1..MaxIdentLen}

\* loom_hash_string on 32 bits, kept as its two 16-bit halves:
\* hash = ((hash << 5) + hash) + c, starting from 5381
RECURSIVE HashHalves(_, _)
HashHalves(hash, str) ==
    IF str = <<>> THEN hash
    ELSE LET low == hash.lo * 33 + Head(str)
         IN  HashHalves([lo |-> low % UINT16_MOD,
                         hi |-> (hash.hi * 33 + low \div UINT16_MOD) % UINT16_MOD],
                        Tail(str))
loom_hash_string_halves(str) == HashHalves([lo |-> 5381, hi |-> 0], str)

\* a float16 bit pattern with all exponent bits set and a mantissa that is
\* not zero is a NaN
Float16IsNaN(bits) == (bits \div 1024) % 32 = 31 /\ bits % 1024 # 0

\* What loom_initialize_vector leaves in components 4..19, as the square of
\* the zone's radius in units of 1/10000.
\* The hash is stored over components 0 and 1, one 16-bit half each.  The loop
\* writes triples of norm r, 0.95 r, ... from component 4 on, r = (hash % 1000)
\* / 1000 * 0.9 (in thousandths below); the zone holds five triples and the
\* first component of the sixth, whose square is between 0 and (0.95^5 r)^2:
\* tail is that square in 1/10000 of r^2.  1 + 0.95^2 + ... + 0.95^8 = 4.1155.
\* loom_normalize_vector divides by the magnitude only if magnitude > 0, which
\* is false for a NaN magnitude.  The magnitude's square is at least the
\* zone's plus 9 (32 emotional components of 0.5 and the active flag), so the
\* normalised value below is an upper bound.
loom_initialize_hyperbolic(hash, tail) ==
    LET r == ((((hash.hi % 1000) * (UINT16_MOD % 1000) + hash.lo) % 1000) * 9) \div 10
        raw == (((r * r) \div 100) * (41155 + tail)) \div (10 * FP)
        magnitude_nan == Float16IsNaN(hash.lo) \/ Float16IsNaN(hash.hi)
    IN  [identity |-> hash,
         normalized |-> ~magnitude_nan,
         radius_sq |-> IF magnitude_nan THEN raw
                       ELSE (raw * 10 * FP) \div (raw + 9 * 10 * FP)]

PoincareInputs == [identifier : PoincareIdentifiers, tail : {0, 5987}]

\* ---- ESP-IDF application: consciousness_task and app_main / run_demos ----

\* consciousness_task runs while (1); run_demos runs 20 trials of 10 cycles
MaxTaskCycles == 2
DemoTrials == 1
DemoCyclesPerTrial == 2

Tasks == {"consciousness", "main"}
NotExecuting == "none"

\* the calls of run_demos that build the learning topology, in order
DemoSetup == <<"esp32_loom_weave_node", "esp32_loom_weave_node", "esp32_loom_weave_node",
               "esp32_loom_create_bidirectional", "esp32_loom_create_bidirectional",
               "esp32_loom_create_hyperedge">>

\* app_main before xTaskCreate: the static topology, the flag false
TaskInit ==
    /\ task_pc = [consciousness |-> "not_created", main |-> "create_tasks"]
    /\ task_in = [t \in Tasks |-> NotExecuting]
    /\ topology_initialized = FALSE
    /\ cycle_count = 0
    /\ demo_step = 1
    /\ demo_trial = 0
    /\ demo_i = 0

TaskFrame == UNCHANGED <<ret, loom_vars, esp32_vars, ard_vars, kernel, ext_but_task>>

\* app_main: xTaskCreate(&consciousness_task, ...), then vTaskDelay(2000 ms)
AppMainCreateTasks ==
    /\ kernel = "idf"
    /\ task_pc.main = "create_tasks"
    /\ task_pc' = [consciousness |-> "init", main |-> "delay_2000"]
    /\ call' = "xTaskCreate"
    /\ UNCHANGED <<task_in, topology_initialized, cycle_count, demo_step, demo_trial, demo_i>>
    /\ TaskFrame

\* the function consciousness_task calls at a label
ConsciousnessCallee(pc) ==
    CASE pc = "init" -> "esp32_loom_init"
      [] pc = "bootstrap" -> "esp32_loom_bootstrap_primordial"
      [] pc = "cycle" -> "esp32_loom_kernel_cycle"
      [] OTHER -> NotExecuting

\* consciousness_task enters esp32_loom_init, esp32_loom_bootstrap_primordial
\* or esp32_loom_kernel_cycle; no lock is taken
ConsciousnessCall ==
    /\ kernel = "idf"
    /\ task_in.consciousness = NotExecuting
    /\ ConsciousnessCallee(task_pc.consciousness) # NotExecuting
    /\ task_in' = [task_in EXCEPT !.consciousness = ConsciousnessCallee(task_pc.consciousness)]
    /\ call' = ConsciousnessCallee(task_pc.consciousness)
    /\ UNCHANGED <<task_pc, topology_initialized, cycle_count, demo_step, demo_trial, demo_i>>
    /\ TaskFrame

\* the call returns (both esp_err_t calls return ESP_OK); after a cycle,
\* cycle_count++ and vTaskDelay(10 ms)
ConsciousnessReturn ==
    /\ kernel = "idf"
    /\ task_in.consciousness # NotExecuting
    /\ task_in' = [task_in EXCEPT !.consciousness = NotExecuting]
    /\ task_pc' = [task_pc EXCEPT !.consciousness =
                      CASE @ = "init" -> "bootstrap"
                        [] @ = "bootstrap" -> "set_initialized"
                        [] OTHER -> "delay"]
    /\ cycle_count' = IF task_pc.consciousness = "cycle" THEN cycle_count + 1 ELSE cycle_count
    /\ call' = "return"
    /\ UNCHANGED <<topology_initialized, demo_step, demo_trial, demo_i>>
    /\ TaskFrame

\* topology_initialized = true
ConsciousnessSetInitialized ==
    /\ kernel = "idf"
    /\ task_pc.consciousness = "set_initialized"
    /\ topology_initialized' = TRUE
    /\ task_pc' = [task_pc EXCEPT !.consciousness = "cycle"]
    /\ call' = "topology_initialized"
    /\ UNCHANGED <<task_in, cycle_count, demo_step, demo_trial, demo_i>>
    /\ TaskFrame

\* the 10 ms delay expires and the loop goes round
ConsciousnessWake ==
    /\ kernel = "idf"
    /\ task_pc.consciousness = "delay"
    /\ cycle_count < MaxTaskCycles
    /\ task_pc' = [task_pc EXCEPT !.consciousness = "cycle"]
    /\ call' = "vTaskDelay"
    /\ UNCHANGED <<task_in, topology_initialized, cycle_count, demo_step, demo_trial, demo_i>>
    /\ TaskFrame

\* the delays of app_main (2000 ms) and run_demos (1000 ms, 100 ms per trial) expire
AppMainWake ==
    /\ kernel = "idf"
    /\ task_pc.main \in {"delay_2000", "delay_1000", "delay_100"}
    /\ task_pc' = [task_pc EXCEPT !.main =
                      CASE @ = "delay_2000" -> "delay_1000"
                        [] @ = "delay_1000" -> "check_initialized"
                        [] OTHER -> IF demo_trial + 1 < DemoTrials THEN "activate"
                                    ELSE "returned"]
    /\ demo_trial' = IF task_pc.main = "delay_100" THEN demo_trial + 1 ELSE demo_trial
    /\ call' = "vTaskDelay"
    /\ UNCHANGED <<task_in, topology_initialized, cycle_count, demo_step, demo_i>>
    /\ TaskFrame

\* run_demos: if (!topology_initialized) return
RunDemosCheck ==
    /\ kernel = "idf"
    /\ task_pc.main = "check_initialized"
    /\ task_pc' = [task_pc EXCEPT !.main = IF topology_initialized THEN "setup"
                                            ELSE "returned"]
    /\ call' = "run_demos"
    /\ UNCHANGED <<task_in, topology_initialized, cycle_count, demo_step, demo_trial, demo_i>>
    /\ TaskFrame

\* run_demos enters a construction call or esp32_loom_kernel_cycle on the
\* global topology; no lock is taken
RunDemosCall ==
    /\ kernel = "idf"
    /\ task_in.main = NotExecuting
    /\ task_pc.main \in {"setup", "cycles"}
    /\ \E fn \in {IF task_pc.main = "setup" THEN DemoSetup[demo_step]
                  ELSE "esp32_loom_kernel_cycle"} :
          /\ task_in' = [task_in EXCEPT !.main = fn]
          /\ call' = fn
    /\ UNCHANGED <<task_pc, topology_initialized, cycle_count, demo_step, demo_trial, demo_i>>
    /\ TaskFrame

\* the call of run_demos returns
RunDemosReturn ==
    /\ kernel = "idf"
    /\ task_in.main # NotExecuting
    /\ task_in' = [task_in EXCEPT !.main = NotExecuting]
    /\ IF task_pc.main = "setup"
       THEN /\ demo_step' = demo_step + 1
            /\ task_pc' = [task_pc EXCEPT !.main = IF demo_step = Len(DemoSetup)
                                                    THEN "activate" ELSE "setup"]
            /\ UNCHANGED demo_i
       ELSE /\ demo_i' = demo_i + 1
            /\ task_pc' = [task_pc EXCEPT !.main = IF demo_i + 1 = DemoCyclesPerTrial
                                                    THEN "simulate" ELSE "cycles"]
            /\ UNCHANGED demo_step
    /\ call' = "return"
    /\ UNCHANGED <<topology_initialized, cycle_count, demo_trial>>
    /\ TaskFrame

\* run_demos writes an activation component of a node directly:
\* curiosity before the cycles of a trial, learning after them
RunDemosSetActivation ==
    /\ kernel = "idf"
    /\ task_pc.main \in {"activate", "simulate"}
    /\ task_pc' = [task_pc EXCEPT !.main = IF @ = "activate" THEN "cycles" ELSE "delay_100"]
    /\ demo_i' = IF task_pc.main = "activate" THEN 0 ELSE demo_i
    /\ call' = "VEC_ACTIVATION"
    /\ UNCHANGED <<task_in, topology_initialized, cycle_count, demo_step, demo_trial>>
    /\ TaskFrame

\* the arguments of the function a behaviour applies
PureInputs ==
    CASE kernel = "pull" -> PullInputs
      [] kernel = "gemm" -> GemmInputs
      [] kernel = "poincare" -> PoincareInputs
      [] OTHER -> {<<>>}

PureInit ==
    /\ pure_in \in PureInputs
    /\ pure_out = <<>>

ApplySemanticStep ==
    /\ kernel = "pull"
    /\ pure_out = <<>>
    /\ pure_out' = SemanticStep(pure_in.a, pure_in.b, pure_in.rate)
    /\ call' = "esp32_loom_hebbian_update_pair"
    /\ ret' = 0
    /\ UNCHANGED <<pure_in, loom_vars, esp32_vars, ard_vars, kernel, ext_but_pure>>

ApplyInitializeVector ==
    /\ kernel = "poincare"
    /\ pure_out = <<>>
    /\ pure_out' = loom_initialize_hyperbolic(loom_hash_string_halves(pure_in.identifier),
                                              pure_in.tail)
    /\ call' = "loom_initialize_vector"
    /\ ret' = 0
    /\ UNCHANGED <<pure_in, loom_vars, esp32_vars, ard_vars, kernel, ext_but_pure>>

ApplyGemm ==
    /\ kernel = "gemm"
    /\ pure_out = <<>>
    /\ pure_out' = loom_tensor_gemm(pure_in.A, pure_in.B, pure_in.C, pure_in.transA,
                                    pure_in.transB, pure_in.alpha, pure_in.beta)
    /\ call' = "loom_tensor_gemm"
    /\ ret' = 0
    /\ UNCHANGED <<pure_in, loom_vars, esp32_vars, ard_vars, kernel, ext_but_pure>>

\* ========================================================================
\* Specifications
\* ========================================================================

\* app_main before xTaskCreate(&read_sensors_task, ...)
SensorInit ==
    /\ sensor_pc = "not_created"
    /\ sensor_reads = 0

\* loom_init: calloc'ed topology, memset node_bank
CsrCycleInit ==
    /\ loom_activation = [n \in 0..(CsrCapacity - 1) |-> 0]
    /\ loom_num_hyperedges = 0
    /\ loom_hyperedges = <<>>
    /\ loom_cycles_executed = 0
    /\ loom_cycle_calls = 0
    /\ loom_phases = <<>>
    /\ loom_writers = [n \in 0..(CsrCapacity - 1) |-> {}]

\* esp32_loom_init and Esp32Loom::begin: memset to 0; no loop iteration yet
RunInit ==
    /\ run_ticks = 0
    /\ run_sleeps = 0
    /\ ard_cycles_executed = 0

vars == <<call, ret, kernel, loom_vars, esp32_vars, ard_vars, ext_vars>>

Init ==
    /\ call = NoCall
    /\ ret = 0
    /\ kernel \in {"csr", "esp32", "arduino", "pull", "gemm", "tensor", "poincare", "idf"}
    /\ LoomInit
    /\ Esp32Init
    /\ ArdInit
    /\ ExperienceInit
    /\ PureInit
    /\ TensorInit
    /\ TaskInit
    /\ RunInit
    /\ CsrCycleInit
    /\ SensorInit

NextCsr ==
    \/ \E id \in CsrIdents : LoomWeave(id)
    \/ \E s, t \in 0..(CsrCapacity - 1), w \in Weights : LoomCreateEdge(s, t, w)
    \/ \E a, b \in 0..(CsrCapacity - 1), w \in Weights : LoomCreateBidirectional(a, b, w)

NextEsp32 ==
    \/ \E id \in Esp32Idents(esp32_weaves), z \in SemDraws : Esp32Weave(id, z)
    \/ \E s, t \in Esp32Ids, x \in EdgeArgs : Esp32CreateEdge(s, t, x.w, x.f)
    \/ \E a, b \in Esp32Ids, w \in BidirWeights : Esp32CreateBidirectional(a, b, w)

NextArd ==
    \/ \E id \in ArdIdents(ard_weaves) : ArdWeave(id)
    \/ \E s, t \in ArdIds, x \in ArdEdgeArgs : ArdCreateEdge(s, t, x.w, x.f)
    \/ \E a, b \in ArdIds, w \in ArdBidirWeights : ArdCreateBidirectional(a, b, w)

\* The node and edge calls of the two embedded kernels; the Arduino library
\* weaves at most MaxEmbeddedWeaves nodes.
NextEmbedded ==
    \/ NextEsp32
    \/ \E id \in ArdIdents(ard_weaves) : ard_weaves < MaxEmbeddedWeaves /\ ArdWeave(id)
    \/ \E s, t \in ArdIds, x \in ArdEdgeArgs : ArdCreateEdge(s, t, x.w, x.f)
    \/ \E a, b \in ArdIds, w \in ArdBidirWeights : ArdCreateBidirectional(a, b, w)

\* The hyperedge calls of the ESP32 kernel, on woven and activated nodes.
NextHyper ==
    \/ \E id \in Esp32Idents(esp32_weaves), z \in SemDraws : Esp32Weave(id, z)
    \/ \E n \in 0..(ESP32_MAX_NODES - 1), v \in ActivationValues : Esp32SetActivation(n, v)
    \/ \E p \in ParticipantLists, ty \in ProcessorTypes : Esp32CreateHyperedge(p, Len(p), ty)
    \/ \E h \in 0..(ESP32_MAX_HYPEREDGES - 1) : Esp32ComputeHyperedge(h)

\* create_hyperedge and compute_hyperedge alone
NextHyperTable ==
    \/ \E p \in ParticipantLists, ty \in ProcessorTypes : Esp32CreateHyperedge(p, Len(p), ty)
    \/ \E h \in 0..(ESP32_MAX_HYPEREDGES - 1) : Esp32ComputeHyperedge(h)

NextKernels == NextCsr \/ NextEsp32

\* The CSR kernel alone.
InitCsr == Init /\ kernel = "csr"

SpecCsr == InitCsr /\ [][NextCsr]_vars

\* The ESP32 kernel's node and edge calls.
InitEsp32 == Init /\ kernel = "esp32"

SpecEsp32 == InitEsp32 /\ [][NextEsp32]_vars

\* The CSR kernel and the ESP32 kernel, for what is stated of both.
InitKernels == Init /\ kernel \in {"csr", "esp32"}

SpecKernels == InitKernels /\ [][NextKernels]_vars

\* The ESP32 kernel's hyperedges.
InitHyper == Init /\ kernel = "esp32"

SpecHyper == InitHyper /\ [][NextHyper]_vars

\* The ESP32 kernel's hyperedge table, before any node is woven.
InitHyperTable == Init /\ kernel = "esp32"

SpecHyperTable == InitHyperTable /\ [][NextHyperTable]_vars

\* The Arduino library's node and edge calls.
InitArd == Init /\ kernel = "arduino"

SpecArd == InitArd /\ [][NextArd]_vars

\* The node and edge calls of the ESP32 kernel and of the Arduino library.
InitEmbedded == Init /\ kernel \in {"esp32", "arduino"}

SpecEmbedded == InitEmbedded /\ [][NextEmbedded]_vars

\* ------------------------------------------------------------------------
\* CSR kernel: claims
\* ------------------------------------------------------------------------

\* The entries of the CSR arrays that belong to row s.
LoomRowOf(row_ptr, s) == row_ptr[s]..(row_ptr[s + 1] - 1)
LoomRow(s) == LoomRowOf(loom_row_ptr, s)

\* The pairs create_edge was called with so far.
LoomCreatedPairs == {p \in DOMAIN loom_created : loom_created[p] # 0}

\* C1: after any interleaving of weave and create_edge calls with valid ids,
\* row_ptr[i] <= row_ptr[i+1] for every node i < num_nodes.
C1_RowPtrNonDecreasing ==
    ~loom_oob =>
        \A i \in 0..(loom_num_nodes - 1) : loom_row_ptr[i] <= loom_row_ptr[i + 1]

\* C2: the CSR arrays represent exactly the created edges: row s holds exactly
\* the targets of the create_edge(s, t, w) calls, each once and with the latest
\* weight, and num_edges is the number of distinct (s, t) pairs.
C2_CsrRepresentsCreatedEdges ==
    ~loom_oob =>
        /\ \A s \in 0..(loom_num_nodes - 1) :
              /\ {loom_col_idx[i + 1] : i \in LoomRow(s)}
                    = {t \in 0..(CsrCapacity - 1) : <<s, t>> \in LoomCreatedPairs}
              /\ \A i, j \in LoomRow(s) :
                    loom_col_idx[i + 1] = loom_col_idx[j + 1] => i = j
              /\ \A i \in LoomRow(s) :
                    loom_values[i + 1] = loom_created[<<s, loom_col_idx[i + 1]>>]
        /\ loom_num_edges = Cardinality(LoomCreatedPairs)

\* ------------------------------------------------------------------------
\* ESP32 kernel and Arduino library: claims on nodes and edges
\* ------------------------------------------------------------------------

\* The slots of edges[] that hold the edge source -> target: created by a
\* create_edge call with this source, and storing this target.
Esp32EdgeSlots(source, target) ==
    {i \in 1..esp32_num_edges :
        esp32_sources[i] = source /\ esp32_edges[i].target = target}

\* every node the ESP32 edge calls can name is at most one edge's target, so
\* the edge table holds at most num_nodes edges
Esp32EdgeTableNeverFull ==
    esp32_num_edges <= esp32_num_nodes /\ esp32_num_edges < ESP32_MAX_EDGES

\* C3: esp32_loom_create_edge(src, dst, w, f) with valid ids and free capacity
\* changes only the edge src -> dst: when there is none the edge count grows
\* by one and no existing edge changes; when there is one only its weight and
\* flags are overwritten and the count stays.
C3_CreateEdgeChangesOnlyItsEdge ==
    [][\A s, t \in Esp32Ids, x \in EdgeArgs :
          (/\ Esp32CreateEdge(s, t, x.w, x.f)
           /\ s < esp32_num_nodes /\ t < esp32_num_nodes
           /\ esp32_num_edges < ESP32_MAX_EDGES)
          => IF Esp32EdgeSlots(s, t) = {}
             THEN /\ esp32_num_edges' = esp32_num_edges + 1
                  /\ \A i \in 1..esp32_num_edges : esp32_edges'[i] = esp32_edges[i]
             ELSE /\ esp32_num_edges' = esp32_num_edges
                  /\ \A i \in 1..esp32_num_edges :
                        esp32_edges'[i] =
                            IF i \in Esp32EdgeSlots(s, t)
                            THEN [target |-> t, weight |-> ToInt8(x.w), flags |-> x.f]
                            ELSE esp32_edges[i]
    ]_vars

\* C4: create_bidirectional(a, b, w) on two distinct nodes that are already
\* connected in both directions updates the weights of the two directed edges
\* and leaves the edge count and the sizes of the edge arrays unchanged, in
\* the CSR kernel and in the ESP32 kernel.
C4_RepeatedBidirectionalUpdatesInPlace ==
    [][/\ \A a, b \in 0..(CsrCapacity - 1), w \in Weights :
            (/\ LoomCreateBidirectional(a, b, w)
             /\ a # b
             /\ loom_created[<<a, b>>] # 0 /\ loom_created[<<b, a>>] # 0)
            => /\ loom_num_edges' = loom_num_edges
               /\ Len(loom_col_idx') = Len(loom_col_idx)
               /\ Len(loom_values') = Len(loom_values)
               /\ \E i \in LoomRowOf(loom_row_ptr', a) :
                     loom_col_idx'[i + 1] = b /\ loom_values'[i + 1] = w
               /\ \E i \in LoomRowOf(loom_row_ptr', b) :
                     loom_col_idx'[i + 1] = a /\ loom_values'[i + 1] = w
       /\ \A a, b \in Esp32Ids, w \in BidirWeights :
            (/\ Esp32CreateBidirectional(a, b, w)
             /\ a # b
             /\ Esp32EdgeSlots(a, b) # {} /\ Esp32EdgeSlots(b, a) # {})
            => /\ esp32_num_edges' = esp32_num_edges
               /\ Len(esp32_edges') = Len(esp32_edges)
               /\ \A i \in Esp32EdgeSlots(a, b) \cup Esp32EdgeSlots(b, a) :
                     esp32_edges'[i].weight = ToInt8(w)
    ]_vars

\* C5: with num_nodes at the node limit a weave call fails and leaves
\* num_nodes and every node vector unchanged, and num_nodes never exceeds the
\* limit: ESP32_MAX_NODES in the ESP32 kernel, the capacity handed to
\* loom_init in the CSR kernel.
C5_WeaveFailsAtNodeLimit ==
    [][/\ (call' = "esp32_loom_weave_node" /\ esp32_num_nodes = ESP32_MAX_NODES)
            => /\ ret' = ESP32_WEAVE_ERROR
               /\ UNCHANGED <<esp32_num_nodes, esp32_nodes>>
       /\ (call' = "loom_weave_node" /\ loom_num_nodes = CsrCapacity)
            => UNCHANGED <<loom_num_nodes, loom_node_bank>>
       /\ esp32_num_nodes' <= ESP32_MAX_NODES
       /\ loom_num_nodes' <= CsrCapacity
    ]_vars

\* C6: the k-th successful weave call returns id k-1 and leaves the vector of
\* every node woven before unchanged, in the ESP32 kernel and in the Arduino
\* library.
C6_NodeIdsMonotoneNeverReused ==
    [][/\ (call' = "esp32_loom_weave_node" /\ ret' # ESP32_WEAVE_ERROR)
            => /\ ret' = esp32_weaves
               /\ \A i \in 0..(esp32_num_nodes - 1) : esp32_nodes'[i] = esp32_nodes[i]
       /\ (call' = "Esp32Loom::weave_node" /\ ard_weaves' # ard_weaves)
            => /\ ret' = ard_weaves
               /\ \A i \in DOMAIN ard_nodes : ard_nodes'[i] = ard_nodes[i]
    ]_vars

\* C7: create_edge with a source or target that is not an existing node
\* returns an error and leaves the edge count, every stored edge and every
\* node vector unchanged, in the ESP32 kernel and in the Arduino library.
C7_CreateEdgeRejectsInvalidId ==
    [][/\ call' = "esp32_loom_create_edge" => \A s, t \in Esp32Ids, x \in EdgeArgs :
            (/\ Esp32CreateEdge(s, t, x.w, x.f)
             /\ (s >= esp32_num_nodes \/ t >= esp32_num_nodes))
            => /\ ret' # ESP_OK
               /\ UNCHANGED <<esp32_num_edges, esp32_edges, esp32_nodes, esp32_num_nodes>>
       /\ call' = "Esp32Loom::create_edge" => \A s, t \in ArdIds, x \in ArdEdgeArgs :
            (/\ ArdCreateEdge(s, t, x.w, x.f)
             /\ (s >= ard_num_nodes \/ t >= ard_num_nodes))
            => /\ ret' = 0
               /\ UNCHANGED <<ard_num_edges, ard_edges, ard_nodes, ard_num_nodes>>
    ]_vars

\* an ESP32 create_edge call was refused for its ids while edges are stored
C7_Witness ==
    /\ call = "esp32_loom_create_edge"
    /\ ret = ESP_ERR_INVALID_ARG
    /\ esp32_num_edges > 0

\* C8: whenever create_bidirectional reports failure the topology is as it
\* was before the call: no edge added or modified, no Hebbian pull applied, in
\* the ESP32 kernel and in the Arduino library.
C8_BidirectionalAllOrNothing ==
    [][/\ (call' = "esp32_loom_create_bidirectional" /\ ret' # ESP_OK)
            => UNCHANGED <<esp32_num_nodes, esp32_nodes, esp32_num_edges,
                           esp32_edges, esp32_pulls>>
       /\ (call' = "Esp32Loom::create_bidirectional" /\ ret' = 0)
            => UNCHANGED <<ard_num_nodes, ard_nodes, ard_num_edges,
                           ard_edges, ard_pulls>>
    ]_vars

\* an ESP32 create_bidirectional call failed on a topology with nodes and
\* edges
C8_Witness ==
    /\ call = "esp32_loom_create_bidirectional"
    /\ ret # ESP_OK
    /\ esp32_num_nodes > 0
    /\ esp32_num_edges > 0

\* ------------------------------------------------------------------------
\* ESP32 kernel: claims on hyperedges
\* ------------------------------------------------------------------------

\* C9: esp32_loom_create_hyperedge with count above 6 or with a full table
\* returns 0xFF and leaves num_hyperedges and every hyperedge unchanged;
\* otherwise it returns the previous num_hyperedges, increments num_hyperedges
\* and the new hyperedge has usage counter 0 and state 0.5 for RESONANCE, 0
\* for every other type.
C9_CreateHyperedgeBounded ==
    [][call' = "esp32_loom_create_hyperedge" =>
        IF ret' = ESP32_HYPEREDGE_ERROR
        THEN /\ UNCHANGED <<esp32_num_hyperedges, esp32_hyperedges>>
             /\ \/ esp32_num_hyperedges >= ESP32_MAX_HYPEREDGES
                \/ \E p \in ParticipantLists, ty \in ProcessorTypes :
                      Len(p) > 6 /\ Esp32CreateHyperedge(p, Len(p), ty)
        ELSE LET args == esp32_hyper_args'[Len(esp32_hyper_args')]
                 hedge == esp32_hyperedges'[ret' + 1]
             IN  /\ args.count <= 6
                 /\ esp32_num_hyperedges < ESP32_MAX_HYPEREDGES
                 /\ ret' = esp32_num_hyperedges
                 /\ esp32_num_hyperedges' = esp32_num_hyperedges + 1
                 /\ hedge.activation_count = 0
                 /\ hedge.processor_state =
                       IF args.processor_type = PROCESSOR_RESONANCE
                       THEN F(FP \div 2) ELSE F(0)
    ]_vars

\* a create_hyperedge call was refused while a RESONANCE hyperedge whose
\* participants were copied past participants[] is stored
C9_Witness ==
    /\ call = "esp32_loom_create_hyperedge"
    /\ ret = ESP32_HYPEREDGE_ERROR
    /\ \E h \in 1..esp32_num_hyperedges :
          /\ esp32_hyper_args[h].processor_type = PROCESSOR_RESONANCE
          /\ esp32_hyper_args[h].count > 3
          /\ esp32_hyperedges[h].processor_state = F(FP \div 2)

\* C10: esp32_loom_compute_hyperedge on a hyperedge created with count 0
\* takes 0 as the instantaneous value: the resulting processor_state is the
\* finite number 0.9 x the old state.
C10_EmptyHyperedgeStepsFailSoft ==
    [][call' = "esp32_loom_compute_hyperedge" =>
        \A h \in 0..(ESP32_MAX_HYPEREDGES - 1) :
          (/\ Esp32ComputeHyperedge(h)
           /\ esp32_hyper_args[h + 1].count = 0)
          => /\ ~esp32_hyperedges'[h + 1].processor_state.nan
             /\ esp32_hyperedges'[h + 1].processor_state.v =
                   RoundDiv(esp32_hyperedges[h + 1].processor_state.v * 9, 10)
    ]_vars

\* ========================================================================
\* Steps of AND hyperedges
\* ========================================================================

\* participant arrays of AND hyperedges: stored as the nodes (0, 0) and (0, 1)
AndParticipantLists == {<<0, 1>>, <<256, 0>>}
\* activations above and below ACTIVATION_THRESHOLD
StepActivations == {900, 50}

NextAnd ==
    \/ \E id \in Esp32Idents(esp32_weaves), z \in SemDraws : Esp32Weave(id, z)
    \/ \E n \in 0..(ESP32_MAX_NODES - 1), v \in StepActivations : Esp32SetActivation(n, v)
    \/ \E p \in AndParticipantLists : Esp32CreateHyperedge(p, Len(p), PROCESSOR_AND)
    \/ \E h \in 0..(ESP32_MAX_HYPEREDGES - 1) : Esp32ComputeHyperedge(h)

InitAnd == Init /\ kernel = "esp32"

SpecAnd == InitAnd /\ [][NextAnd]_vars

\* the activations of the stored participants of hyperedge h
HedgeActivations(h) ==
    [i \in 1..esp32_hyperedges[h + 1].num_participants |->
        esp32_nodes[esp32_hyperedges[h + 1].participants[i]].act]

HedgeAllActive(h) ==
    \A i \in DOMAIN HedgeActivations(h) : HedgeActivations(h)[i] > ACTIVATION_THRESHOLD

Dist(x, y) == IF x >= y THEN x - y ELSE y - x

\* C11: one step of an AND hyperedge with participants takes the average
\* activation of the participants as the instantaneous value if and only if
\* every participant is above the threshold and 0 otherwise, and stores
\* 0.9 x old + 0.1 x instantaneous; with a participant not above the threshold
\* the state is 0.9 x old (smaller than old while positive), and with all
\* above it does not move away from the average.
C11_AndHyperedgeStep ==
    [][\A h \in 0..(ESP32_MAX_HYPEREDGES - 1) :
          (/\ Esp32ComputeHyperedge(h)
           /\ esp32_hyperedges[h + 1].processor_type = PROCESSOR_AND
           /\ esp32_hyperedges[h + 1].num_participants >= 1
           /\ ~esp32_hyperedges[h + 1].processor_state.nan)
          => LET old == esp32_hyperedges[h + 1].processor_state.v
                 new == esp32_hyperedges'[h + 1].processor_state
                 average == RoundDiv(SeqSum(HedgeActivations(h)),
                                     esp32_hyperedges[h + 1].num_participants)
                 instantaneous == IF HedgeAllActive(h) THEN average ELSE 0
             IN  /\ ~new.nan
                 /\ new.v = RoundDiv(old * 9, 10) + RoundDiv(instantaneous, 10)
                 /\ ~HedgeAllActive(h) =>
                        /\ new.v = RoundDiv(old * 9, 10)
                        /\ old >= 10 => new.v < old
                 /\ HedgeAllActive(h) => Dist(new.v, average) <= Dist(old, average)
      ]_vars

\* an AND hyperedge that was stepped with all participants active and then
\* with one of them below the threshold
C11_Witness ==
    /\ call = "esp32_loom_compute_hyperedge"
    /\ esp32_computes = 2
    /\ esp32_num_hyperedges = 1
    /\ esp32_hyperedges[1].processor_type = PROCESSOR_AND
    /\ esp32_hyperedges[1].num_participants = 2
    /\ esp32_hyperedges[1].processor_state = F(81)
    /\ ~HedgeAllActive(0)

\* ========================================================================
\* The kernel cycle of the ESP32 kernel
\* ========================================================================

\* kernel_cycle calls in one behaviour
MaxCycles == 2

EDGE_FLAG_TEMPORARY == 2
\* LEARNING_RATE 0.01f, as the divisor 100
LEARNING_RATE_DIV == 100
INT8_CLAMP == 127
\* abs(weight) < 10 in sleep_consolidation
PRUNE_THRESHOLD == 10

\* the sum of activation * weight over the edges e..num_edges, read from the
\* nodes as they are now
RECURSIVE TotalInput(_, _)
TotalInput(E, e) ==
    IF e > E.num_edges THEN 0
    ELSE E.nodes[E.edges[e].target].act * E.edges[e].weight + TotalInput(E, e + 1)

Clamp(x, lo, hi) == IF x < lo THEN lo ELSE IF x > hi THEN hi ELSE x

\* esp32_loom_compute_activation_dynamics from node i on: every node takes
\* 0.9 of its activation and 0.1 of the mean input over ALL edges, clamped to
\* [0, 1]; later nodes read the activations already written.
RECURSIVE esp32_loom_compute_activation_dynamics(_, _)
esp32_loom_compute_activation_dynamics(E, i) ==
    IF i >= E.num_nodes THEN E
    ELSE IF E.num_edges = 0 THEN E
    ELSE LET mean_input == RoundDiv(TotalInput(E, 1), INT8_CLAMP * E.num_edges)
             new_activation == RoundDiv(E.nodes[i].act * 9, 10) + RoundDiv(mean_input, 10)
         IN  esp32_loom_compute_activation_dynamics(
                 [E EXCEPT !.nodes[i].act = Clamp(new_activation, 0, FP)], i + 1)

\* the Hebbian weight without fminf and fmaxf
HebbianWeightUnclamped(weight, activation_i, activation_j) ==
    weight + (activation_i * activation_j * INT8_CLAMP) \div (FP * FP * LEARNING_RATE_DIV)

\* (int8_t)fminf(127, fmaxf(-127, (float)weight + ai * aj * LEARNING_RATE * 127)):
\* the conversion truncates toward zero
HebbianWeight(weight, activation_i, activation_j) ==
    LET num == activation_i * activation_j * INT8_CLAMP
        den == FP * FP * LEARNING_RATE_DIV
        q == num \div den
        r == num % den
        truncated == IF weight + q < 0 /\ r > 0 THEN weight + q + 1 ELSE weight + q
    IN  Clamp(truncated, -INT8_CLAMP, INT8_CLAMP)

\* esp32_loom_hebbian_update from node i on: for every node at or above the
\* threshold, every edge (of any source) whose target is above the threshold
RECURSIVE esp32_loom_hebbian_update(_, _)
esp32_loom_hebbian_update(E, i) ==
    IF i >= E.num_nodes THEN E
    ELSE IF E.nodes[i].act < ACTIVATION_THRESHOLD
    THEN esp32_loom_hebbian_update(E, i + 1)
    ELSE esp32_loom_hebbian_update(
            [E EXCEPT !.edges = [e \in 1..E.num_edges |->
                IF E.nodes[E.edges[e].target].act > ACTIVATION_THRESHOLD
                THEN [E.edges[e] EXCEPT !.weight =
                        HebbianWeight(@, E.nodes[i].act, E.nodes[E.edges[e].target].act)]
                ELSE E.edges[e]]],
            i + 1)

\* phase 3 of kernel_cycle: compute_hyperedge for h .. num_hyperedges - 1
RECURSIVE ComputeHyperedges(_, _)
ComputeHyperedges(E, h) ==
    IF h >= E.num_hyperedges THEN E
    ELSE ComputeHyperedges(esp32_loom_compute_hyperedge(E, h), h + 1)

\* the sum of a sequence of floats that may be NaN
RECURSIVE FSum(_)
FSum(q) ==
    IF q = <<>> THEN F(0)
    ELSE LET rest == FSum(Tail(q))
         IN  IF Head(q).nan \/ rest.nan THEN NaN ELSE F(Head(q).v + rest.v)

\* esp32_loom_compute_emergence without the test of node_activity
esp32_loom_compute_emergence_unguarded(E) ==
    LET node_activity == SeqSum([i \in 1..E.num_nodes |-> E.nodes[i - 1].act])
        hyperedge_activity ==
            FSum([i \in 1..E.num_hyperedges |-> E.hyperedges[i].processor_state])
    IN  IF hyperedge_activity.nan \/ node_activity = 0 THEN NaN
        ELSE F(RoundDiv(hyperedge_activity.v * FP, node_activity))

\* esp32_loom_compute_emergence
esp32_loom_compute_emergence(E) ==
    LET node_activity == SeqSum([i \in 1..E.num_nodes |-> E.nodes[i - 1].act])
        hyperedge_activity ==
            FSum([i \in 1..E.num_hyperedges |-> E.hyperedges[i].processor_state])
    IN  IF node_activity > 0
        THEN IF hyperedge_activity.nan THEN NaN
             ELSE F(RoundDiv(hyperedge_activity.v * FP, node_activity))
        ELSE F(0)

\* The topology after phases 1 to 6 of esp32_loom_kernel_cycle.  Phases 1 and
\* 2 (hormones) change no node of the vectors modelled here: battery_level
\* stays 1.0, so stress stays 0 (not > 0.5), motion_activity is at most 0.5,
\* so satisfaction is at most 0.5 (not > 0.7), and the emotional and
\* connection components they would scale are 0.  Phase 6 has no trajectory
\* to apply (num_trajectories is 0).
esp32_loom_kernel_cycle(E) ==
    esp32_loom_hebbian_update(
        esp32_loom_compute_activation_dynamics(ComputeHyperedges(E, 0), 0), 0)

\* The calls and statements of esp32_loom_kernel_cycle, in the order of its
\* body: update_hormones, apply_hormonal_modulation, the loop over
\* compute_hyperedge, compute_activation_dynamics, hebbian_update,
\* apply_trajectory_evolution, cycles_executed++, emergence_metric = ...
Esp32CyclePhases ==
    <<"hormones", "modulation", "hyperedges", "activation", "hebbian", "trajectory",
      "cycles_executed", "emergence">>

\* flags = EDGE_FLAG_TEMPORARY
SetTemporaryOnly(flags) == EDGE_FLAG_TEMPORARY

\* flags |= EDGE_FLAG_TEMPORARY
SetTemporary(flags) ==
    IF (flags \div EDGE_FLAG_TEMPORARY) % 2 = 1 THEN flags ELSE flags + EDGE_FLAG_TEMPORARY

\* processor_state *= 1.1f
FStrengthen(state) == IF state.nan THEN NaN ELSE F(RoundDiv(state.v * 11, 10))

\* esp32_loom_sleep_consolidation
esp32_loom_sleep_consolidation(E) ==
    [E EXCEPT
       !.edges = [e \in 1..E.num_edges |->
                    IF E.edges[e].weight < PRUNE_THRESHOLD
                       /\ E.edges[e].weight > -PRUNE_THRESHOLD
                    THEN [E.edges[e] EXCEPT !.flags = SetTemporary(@)]
                    ELSE E.edges[e]],
       !.hyperedges = [i \in 1..E.num_hyperedges |->
                    IF E.hyperedges[i].activation_count > 10
                    THEN [E.hyperedges[i] EXCEPT
                            !.processor_state = FStrengthen(@),
                            !.activation_count = 0]
                    ELSE E.hyperedges[i]]]

Esp32KernelCycle ==
    /\ kernel = "esp32"
    /\ esp32_cycles_executed < MaxCycles
    /\ \E E \in {esp32_loom_kernel_cycle(Esp32State)} :
           /\ Esp32Set(E)
           /\ esp32_emergence_metric' = esp32_loom_compute_emergence(E)
    /\ esp32_cycles_executed' = esp32_cycles_executed + 1
    /\ esp32_phases' = Esp32CyclePhases
    /\ call' = "esp32_loom_kernel_cycle"
    /\ ret' = 0
    /\ UNCHANGED <<esp32_weaves, esp32_hyper_args, esp32_computes>>
    /\ UNCHANGED <<loom_vars, ard_vars, kernel, ext_but_tick>>

Esp32SleepConsolidation ==
    /\ kernel = "esp32"
    /\ \E E \in {esp32_loom_sleep_consolidation(Esp32State)} : Esp32Set(E)
    /\ call' = "esp32_loom_sleep_consolidation"
    /\ ret' = 0
    /\ UNCHANGED <<esp32_weaves, esp32_hyper_args, esp32_computes, esp32_tick_vars>>
    /\ UNCHANGED <<loom_vars, ard_vars, kernel, ext_but_tick>>

\* ---- the emergence metric ----

\* the hyperedges created before a tick: one without participants, one over
\* the nodes 0 and 0
TickHyperedges == {[p |-> <<>>, ty |-> PROCESSOR_AND],
                   [p |-> <<0, 1>>, ty |-> PROCESSOR_RESONANCE]}

NextEmergence ==
    \/ \E z \in SemDraws : Esp32Weave("a", z)
    \/ \E v \in ActivationValues : Esp32SetActivation(0, v)
    \/ \E x \in EdgeArgs : Esp32CreateEdge(0, 0, x.w, x.f)
    \/ \E x \in TickHyperedges : Esp32CreateHyperedge(x.p, Len(x.p), x.ty)
    \/ Esp32KernelCycle

InitEmergence == Init /\ kernel = "esp32"

SpecEmergence == InitEmergence /\ [][NextEmergence]_vars

\* the total activation of the woven nodes
TotalNodeActivation ==
    SeqSum([i \in 1..esp32_num_nodes |-> esp32_nodes[i - 1].act])

HyperedgeStates == [i \in 1..esp32_num_hyperedges |-> esp32_hyperedges[i].processor_state]

\* C12: at the end of a tick the emergence metric is the sum of the
\* hyperedge states divided by the total node activation when that total is
\* positive, and exactly 0 (not NaN) when the total node activation is 0,
\* for any number of nodes and hyperedges.
C12_EmergenceMetric ==
    call = "esp32_loom_kernel_cycle" =>
        /\ TotalNodeActivation > 0 =>
              IF \E i \in DOMAIN HyperedgeStates : HyperedgeStates[i].nan
              THEN esp32_emergence_metric.nan
              ELSE esp32_emergence_metric =
                      F(RoundDiv(FSum(HyperedgeStates).v * FP, TotalNodeActivation))
        /\ TotalNodeActivation = 0 => esp32_emergence_metric = F(0)

\* a tick that ends with active hyperedges and no node activation
C12_Witness ==
    /\ call = "esp32_loom_kernel_cycle"
    /\ esp32_num_nodes > 0
    /\ TotalNodeActivation = 0
    /\ \E i \in DOMAIN HyperedgeStates : ~HyperedgeStates[i].nan /\ HyperedgeStates[i].v > 0
    /\ esp32_emergence_metric = F(0)

\* ---- edges over ticks and consolidations ----

\* the activations written before a tick: 0.9 into node 0, 0.7 into node 1
TickActivations == {[n |-> 0, v |-> 900], [n |-> 1, v |-> 700]}
\* create_bidirectional(a, b, 0.5)
TickBidirWeights == {500}
\* edges of weight 10 (0.08), 6 (0.05) and -6 on the int8 scale
SleepEdgeArgs == {[w |-> 80, f |-> EDGE_FLAG_LEARNING],
                  [w |-> 50, f |-> EDGE_FLAG_LEARNING + EDGE_FLAG_BIDIRECTIONAL],
                  [w |-> -50, f |-> EDGE_FLAG_TEMPORARY]}

\* weave a, weave b, create_bidirectional(a, b, 0.5), activations, cycles
NextTick ==
    \/ \E z \in SemDraws : Esp32Weave("a", z)
    \/ \E x \in TickActivations :
           x.n < ESP32_MAX_NODES /\ Esp32SetActivation(x.n, x.v)
    \/ \E w \in TickBidirWeights : Esp32CreateBidirectional(0, 1, w)
    \/ \E t \in 0..(ESP32_MAX_NODES - 1), x \in EdgeArgs :
           Esp32CreateEdge(0, t, x.w, x.f)
    \/ Esp32KernelCycle

InitTick == Init /\ kernel = "esp32"

SpecTick == InitTick /\ [][NextTick]_vars

\* edges of several weights and flags, and consolidations
NextSleep ==
    \/ \E z \in SemDraws : Esp32Weave("a", z)
    \/ \E s, t \in 0..(ESP32_MAX_NODES - 1), x \in SleepEdgeArgs :
           Esp32CreateEdge(s, t, x.w, x.f)
    \/ \E w \in TickBidirWeights : Esp32CreateBidirectional(0, 1, w)
    \/ Esp32SleepConsolidation

InitSleep == Init /\ kernel = "esp32"

SpecSleep == InitSleep /\ [][NextSleep]_vars

FlagBit(flags, bit) == (flags \div bit) % 2

\* C13: sleep consolidation sets the TEMPORARY flag on exactly the edges
\* whose |weight| is below 10 and leaves the other edges untouched; it removes
\* no edge and changes no weight, target, other flag bit or the edge count.
C13_ConsolidationFlagsWeakEdges ==
    [][call' = "esp32_loom_sleep_consolidation" =>
          /\ esp32_num_edges' = esp32_num_edges
          /\ Len(esp32_edges') = Len(esp32_edges)
          /\ \A e \in 1..esp32_num_edges :
                /\ esp32_edges'[e].target = esp32_edges[e].target
                /\ esp32_edges'[e].weight = esp32_edges[e].weight
                /\ \A bit \in {1, 4, 8, 16, 32, 64, 128} :
                      FlagBit(esp32_edges'[e].flags, bit) = FlagBit(esp32_edges[e].flags, bit)
                /\ FlagBit(esp32_edges'[e].flags, EDGE_FLAG_TEMPORARY) =
                      IF Dist(esp32_edges[e].weight, 0) < PRUNE_THRESHOLD THEN 1
                      ELSE FlagBit(esp32_edges[e].flags, EDGE_FLAG_TEMPORARY)
      ]_vars

\* after a consolidation: a weak edge that carries the TEMPORARY flag next to
\* its other flags, and an edge at the threshold that does not carry it
C13_Witness ==
    /\ call = "esp32_loom_sleep_consolidation"
    /\ \E e \in 1..esp32_num_edges :
          /\ Dist(esp32_edges[e].weight, 0) < PRUNE_THRESHOLD
          /\ esp32_edges[e].flags =
                EDGE_FLAG_LEARNING + EDGE_FLAG_BIDIRECTIONAL + EDGE_FLAG_TEMPORARY
    /\ \E e \in 1..esp32_num_edges :
          /\ esp32_edges[e].weight = PRUNE_THRESHOLD
          /\ esp32_edges[e].flags = EDGE_FLAG_LEARNING

\* C15: a kernel cycle strictly increases the stored weight of every edge
\* whose source and target are above the threshold at the Hebbian update of
\* the cycle and whose weight is below the clamp (as for a -> b after
\* create_bidirectional(a, b, 0.5) with activations 0.9 and 0.7), and leaves
\* the emergence metric finite.
C15_CoActivationStrengthensEdge ==
    [][call' = "esp32_loom_kernel_cycle" =>
          /\ ~esp32_emergence_metric'.nan
          /\ \A e \in 1..esp32_num_edges :
                (/\ esp32_nodes'[esp32_sources[e]].act > ACTIVATION_THRESHOLD
                 /\ esp32_nodes'[esp32_edges[e].target].act > ACTIVATION_THRESHOLD
                 /\ esp32_edges[e].weight < INT8_CLAMP)
                => esp32_edges'[e].weight > esp32_edges[e].weight
      ]_vars

\* ---- the experience logs ----

NextExperience ==
    \/ \E count \in ExperienceCounts, valence \in Valences :
           Esp32RecordExperience(count, valence)
    \/ \E count \in ExperienceCounts, valence \in Valences :
           ArdRecordExperience(count, valence)

InitExperience == Init /\ kernel \in {"esp32", "arduino"}

SpecExperience == InitExperience /\ [][NextExperience]_vars

\* the entry at index of an array of entries of the given size
ExperienceEntry(mem, size, index) == [k \in 1..size |-> mem[index * size + k - 1]]

\* the number of the latest of calls calls that wrote the entry at index
LatestCall(calls, capacity, index) ==
    Max({0} \cup {c \in 1..calls : (c - 1) % capacity = index})

\* The ring buffer of capacity entries after calls calls, old being the
\* array before the latest call: the index is calls mod capacity, the latest
\* call wrote the entry at the old index and no other, and every entry holds
\* the record of the latest call that wrote it.
RingBuffer(old, mem, size, capacity, index, calls) ==
    /\ index = calls % capacity
    /\ index >= 0 /\ index < capacity
    /\ \A j \in 0..(capacity - 1) :
          /\ j # (calls - 1) % capacity =>
                ExperienceEntry(mem, size, j) = ExperienceEntry(old, size, j)
          /\ mem[j * size] = LatestCall(calls, capacity, j)

\* C14: the experience log is a ring buffer: after k calls of
\* record_experience the index is k mod capacity, within [0, capacity); each
\* call writes one entry, that of the oldest record once the buffer is full,
\* and no other, so that the buffer holds the most recent records.
C14_ExperienceRingBuffer ==
    [][/\ call' = "esp32_loom_record_experience" =>
             /\ RingBuffer(esp32_experience_buffer, esp32_experience_buffer',
                           Esp32ExperienceLayout.size, ESP32_EXPERIENCE_BUFFER,
                           esp32_experience_index', esp32_experience_calls')
             /\ ~esp32_experience_oob'
       /\ call' = "Esp32Loom::record_experience" =>
             RingBuffer(ard_experience_buffer, ard_experience_buffer',
                        ArduinoExperienceLayout.size, ARDUINO_EXPERIENCE_BUFFER,
                        ard_experience_index', ard_experience_calls')
      ]_vars

\* C14 for the Arduino library alone
C14_ArduinoRingBuffer ==
    [][call' = "Esp32Loom::record_experience" =>
             RingBuffer(ard_experience_buffer, ard_experience_buffer',
                        ArduinoExperienceLayout.size, ARDUINO_EXPERIENCE_BUFFER,
                        ard_experience_index', ard_experience_calls')
      ]_vars

\* ---- the semantic step ----

NextPull == ApplySemanticStep

InitPull == Init /\ kernel = "pull"

SpecPull == InitPull /\ [][NextPull]_vars

\* the square of the Euclidean distance of two zones
Dist2(a, b) == SeqSum([i \in DOMAIN a |-> (b[i] - a[i]) * (b[i] - a[i])])

NextGemm == ApplyGemm

InitGemm == Init /\ kernel = "gemm"

SpecGemm == InitGemm /\ [][NextGemm]_vars

\* element (i, j) of op(X): X itself or its transpose
OpElement(X, trans, i, j) ==
    IF trans = 0 THEN X.data[i * X.dims[2] + j + 1] ELSE X.data[j * X.dims[2] + i + 1]

\* C17: loom_tensor_gemm computes C = alpha * op(A) * op(B) + beta * C, where
\* op(X) is X when its trans flag is 0 and the transpose of X otherwise, for
\* every combination of the flags and conforming shapes.
C17_GemmComputesProduct ==
    (call = "loom_tensor_gemm" /\ kernel = "gemm")
    => LET M == pure_in.C.dims[1]
           N == pure_in.C.dims[2]
           K == IF pure_in.transA = 0 THEN pure_in.A.dims[2] ELSE pure_in.A.dims[1]
       IN  /\ ~pure_out.fault
           /\ \A i \in 0..(M - 1), j \in 0..(N - 1) :
                 pure_out.c[i * N + j + 1] =
                    pure_in.alpha * SeqSum([k \in 1..K |->
                         OpElement(pure_in.A, pure_in.transA, i, k - 1)
                         * OpElement(pure_in.B, pure_in.transB, k - 1, j)])
                    + pure_in.beta * pure_in.C.data[i * N + j + 1]

\* C17 for transA = transB = 0
C17_GemmWithoutTranspose ==
    (call = "loom_tensor_gemm" /\ kernel = "gemm"
     /\ pure_in.transA = 0 /\ pure_in.transB = 0)
    => C17_GemmComputesProduct

\* ---- Devices without an implementation ----

NextTensor ==
    \/ \E device \in TensorDevices, dims \in TensorDims : TensorCreate(device, dims)
    \/ \E t \in TensorHandles : TensorFill(t, 2)
    \/ \E dst \in TensorHandles, src \in TensorHandles : TensorCopy(dst, src)
    \/ \E A \in TensorHandles, B \in TensorHandles, C \in TensorHandles :
          TensorGemm(A, B, C, 1, 1)

InitTensor == Init /\ kernel = "tensor"

SpecTensor == InitTensor /\ [][NextTensor]_vars

\* the call of this step was given a tensor of a device other than the CPU
OnUnimplementedDevice ==
    /\ kernel = "tensor"
    /\ \E x \in 1..Len(tensor_args') : tensors'[tensor_args'[x]].device # LOOM_DEVICE_CPU

\* C18: a create, fill, copy or GEMM that involves a tensor of a device
\* without an implementation (CUDA, Metal, HIP) does not fault through a null
\* data pointer and leaves the contents of every tensor as they were.
C18_UnimplementedDeviceIsRecoverable ==
    [][OnUnimplementedDevice
       => /\ tensor_fault' = "none"
          /\ \A t \in TensorHandles : tensors'[t].data = tensors[t].data]_vars

\* C18 without GEMM: create, fill and copy
C18_CreateFillCopyRecoverable ==
    [][(OnUnimplementedDevice /\ call' # "loom_tensor_gemm")
       => /\ tensor_fault' = "none"
          /\ \A t \in TensorHandles : tensors'[t].data = tensors[t].data]_vars

\* ---- Poincare ball ----

NextPoincare == ApplyInitializeVector

InitPoincare == Init /\ kernel = "poincare"

SpecPoincare == InitPoincare /\ [][NextPoincare]_vars

\* C19: for every identifier the vector produced by weave has a hyperbolic
\* sub-vector of radius < 1 (radius squared below 1, in units of 1/10000).
C19_WeaveRadiusInsideBall ==
    (kernel = "poincare" /\ call = "loom_initialize_vector")
    => pure_out.radius_sq < 10 * FP

\* C19 for the vectors that loom_normalize_vector did divide
C19_NormalizedRadiusInsideBall ==
    (kernel = "poincare" /\ call = "loom_initialize_vector" /\ pure_out.normalized)
    => pure_out.radius_sq < 10 * FP

\* ---- ESP-IDF tasks ----

NextIdf ==
    \/ AppMainCreateTasks
    \/ ConsciousnessCall
    \/ ConsciousnessReturn
    \/ ConsciousnessSetInitialized
    \/ ConsciousnessWake
    \/ AppMainWake
    \/ RunDemosCheck
    \/ RunDemosCall
    \/ RunDemosReturn
    \/ RunDemosSetActivation

InitIdf == Init /\ kernel = "idf"

SpecIdf == InitIdf /\ [][NextIdf]_vars

StructuralMutations ==
    {"esp32_loom_weave_node", "esp32_loom_create_bidirectional", "esp32_loom_create_hyperedge"}

\* C20: while one task executes esp32_loom_kernel_cycle on the global
\* topology, no other task executes a structural mutation (weave_node,
\* create_bidirectional, create_hyperedge) or another kernel_cycle on it.
C20_SingleOwnerPerTick ==
    \A t \in Tasks, u \in Tasks :
        (t # u /\ task_in[t] = "esp32_loom_kernel_cycle")
        => task_in[u] \notin (StructuralMutations \cup {"esp32_loom_kernel_cycle"})

\* run_demos touches the topology only after consciousness_task has
\* initialised and bootstrapped it
C20_DemosAfterBootstrap ==
    task_in.main # NotExecuting
    => task_in.consciousness \notin {"esp32_loom_init", "esp32_loom_bootstrap_primordial"}

\* ========================================================================
\* Activation propagation
\* ========================================================================

\* the edges created from node i
OutgoingEdges(i) == {e \in 1..esp32_num_edges : esp32_sources[e] = i}

\* the sum of weight * target activation over the edges created from node i,
\* with the activations of before the phase
OutgoingInput(i) ==
    SeqSum([e \in 1..esp32_num_edges |->
               IF esp32_sources[e] = i
               THEN esp32_nodes[esp32_edges[e].target].act * esp32_edges[e].weight
               ELSE 0])

\* C25: in the activation-propagation phase a node's new activation is
\* clamp(0.9 * previous + 0.1 * aggregate over its own outgoing edges, 0, 1);
\* edges of other sources do not influence it, and a node without outgoing
\* edges receives no input (it keeps its activation, or 0.9 of it).
C25_ActivationFromOwnEdges ==
    [][(call' = "esp32_loom_kernel_cycle" /\ esp32_num_hyperedges = 0) =>
          \A i \in 0..(esp32_num_nodes - 1) :
             IF OutgoingEdges(i) = {}
             THEN esp32_nodes'[i].act \in {esp32_nodes[i].act,
                                           RoundDiv(esp32_nodes[i].act * 9, 10)}
             ELSE esp32_nodes'[i].act =
                     Clamp(RoundDiv(esp32_nodes[i].act * 9, 10)
                           + RoundDiv(RoundDiv(OutgoingInput(i),
                                               INT8_CLAMP * Cardinality(OutgoingEdges(i))), 10),
                           0, FP)
      ]_vars

\* ========================================================================
\* The range of the stored edge weights
\* ========================================================================

\* create_edge weights -1.0 and 0.99; activations of 1.0
WeightEdgeArgs == {[w |-> -FP, f |-> EDGE_FLAG_LEARNING],
                   [w |-> 990, f |-> EDGE_FLAG_LEARNING]}

NextWeights ==
    \/ \E z \in SemDraws : Esp32Weave("a", z)
    \/ \E n \in 0..1 : esp32_cycles_executed = 0 /\ Esp32SetActivation(n, FP)
    \/ \E t \in 0..1, x \in WeightEdgeArgs : Esp32CreateEdge(0, t, x.w, x.f)
    \/ Esp32KernelCycle
    \/ Esp32SleepConsolidation

InitWeights == Init /\ kernel = "esp32"

SpecWeights == InitWeights /\ [][NextWeights]_vars

\* C26: after any sequence of create_edge calls with weight in [-1, 1],
\* kernel cycles and consolidations every stored int8 weight lies in
\* [-127, 127], and the batch update of a cycle never decreases a weight.
C26_WeightsInRange ==
    [][/\ \A e \in 1..esp32_num_edges' :
             /\ esp32_edges'[e].weight >= -INT8_CLAMP
             /\ esp32_edges'[e].weight <= INT8_CLAMP
       /\ call' = "esp32_loom_kernel_cycle" =>
             \A e \in 1..esp32_num_edges :
                 esp32_edges'[e].weight >= esp32_edges[e].weight
      ]_vars

\* after two cycles: a weight the update raised to the clamp and a negative
\* weight it raised
C26_Witness ==
    /\ call = "esp32_loom_kernel_cycle"
    /\ esp32_cycles_executed = MaxCycles
    /\ \E e \in 1..esp32_num_edges : esp32_edges[e].weight = INT8_CLAMP
    /\ \E e \in 1..esp32_num_edges :
          esp32_edges[e].weight < 0 /\ esp32_edges[e].weight > -INT8_CLAMP

\* ========================================================================
\* What a hyperedge records
\* ========================================================================

\* C28: after a successful create_hyperedge(participants, count, type) the
\* new hyperedge has num_participants = count, processor_type = type and
\* participants[i] equal to the i-th node id passed, for every i < count.
C28_HyperedgeRecordsArguments ==
    [][\A p \in ParticipantLists, ty \in ProcessorTypes :
          (/\ Esp32CreateHyperedge(p, Len(p), ty)
           /\ ret' # ESP32_HYPEREDGE_ERROR
           /\ Len(p) >= 1)
          => /\ esp32_hyperedges'[esp32_num_hyperedges'].num_participants = Len(p)
             /\ esp32_hyperedges'[esp32_num_hyperedges'].processor_type = ty
             /\ \A i \in 1..Len(p) :
                   esp32_hyperedges'[esp32_num_hyperedges'].participants[i] = p[i]
      ]_vars

\* ------------------------------------------------------------------------
\* The run loops
\* ========================================================================

\* the literal of "cycles_executed % 1000 == 0" in both run loops
CONSOLIDATION_PERIOD == 1000

\* iterations of esp32_loom_main_loop that are followed
MaxMainLoopTicks == 1001
\* completed cycles of Esp32Loom::run that are followed: past the wrap of
\* the uint16_t counter
MaxRunTicks == 65537

\* One iteration of the while (1) of esp32_loom_main_loop: the kernel cycle,
\* then the consolidation when the new count is a multiple of 1000.  The
\* count is a uint32_t; the guard keeps it far below 2^32.
Esp32MainLoop ==
    /\ kernel = "esp32"
    /\ run_ticks < MaxMainLoopTicks
    /\ \E E \in {esp32_loom_kernel_cycle(Esp32State)} :
           /\ esp32_emergence_metric' = esp32_loom_compute_emergence(E)
           /\ IF (esp32_cycles_executed + 1) % CONSOLIDATION_PERIOD = 0
              THEN /\ Esp32Set(esp32_loom_sleep_consolidation(E))
                   /\ run_sleeps' = 1
              ELSE /\ Esp32Set(E)
                   /\ run_sleeps' = 0
    /\ esp32_cycles_executed' = esp32_cycles_executed + 1
    /\ esp32_phases' = Esp32CyclePhases
    /\ run_ticks' = run_ticks + 1
    /\ call' = "esp32_loom_main_loop"
    /\ ret' = 0
    /\ UNCHANGED <<esp32_weaves, esp32_hyper_args, esp32_computes, ard_cycles_executed>>
    /\ UNCHANGED <<loom_vars, ard_vars, kernel, ext_but_tick_run>>

\* Esp32Loom::kernel_cycle on the topology Esp32Loom::begin leaves: no node,
\* no edge and no hyperedge, so the phases have no vector, weight or state to
\* write and the call changes the counter only.  early: the call found
\* millis() - last_cycle < 10 and returned before the phases.
Esp32Loom_kernel_cycle(cycles_executed, early) ==
    IF early THEN cycles_executed ELSE (cycles_executed + 1) % UINT16_MOD

\* One iteration of the while (true) of Esp32Loom::run: kernel_cycle, then
\* sleep_consolidation when cycles_executed % 1000 == 0.  sleep_consolidation
\* flags weak edges, of which this topology has none.
ArdRun ==
    /\ kernel = "arduino"
    /\ ard_num_nodes = 0
    /\ ard_num_edges = 0
    /\ run_ticks < MaxRunTicks
    /\ \E early \in BOOLEAN :
           /\ ard_cycles_executed' = Esp32Loom_kernel_cycle(ard_cycles_executed, early)
           /\ run_ticks' = IF early THEN run_ticks ELSE run_ticks + 1
    /\ run_sleeps' = IF ard_cycles_executed' % CONSOLIDATION_PERIOD = 0 THEN 1 ELSE 0
    /\ call' = "Esp32Loom::run"
    /\ ret' = 0
    /\ UNCHANGED <<loom_vars, esp32_vars, ard_vars, kernel, ext_but_run>>

NextRun == Esp32MainLoop \/ ArdRun

InitRun == Init /\ kernel \in {"esp32", "arduino"}

SpecRun == InitRun /\ [][NextRun]_vars

\* C24: an iteration of a run loop consolidates exactly when it completed a
\* kernel cycle and that cycle made the number of completed cycles a positive
\* multiple of 1000: never without a new cycle, never twice for one count,
\* and always 1000 cycles after the previous consolidation.
C24_ConsolidationEveryPeriod ==
    [][call' \in {"esp32_loom_main_loop", "Esp32Loom::run"}
       => (run_sleeps' = 1 <=> /\ run_ticks' = run_ticks + 1
                               /\ run_ticks' % CONSOLIDATION_PERIOD = 0)]_vars

\* the consolidation of esp32_loom_main_loop alone
C24_MainLoopEveryPeriod ==
    [][call' = "esp32_loom_main_loop"
       => (run_sleeps' = 1 <=> /\ run_ticks' = run_ticks + 1
                               /\ run_ticks' % CONSOLIDATION_PERIOD = 0)]_vars

\* Esp32Loom::run while every kernel_cycle call completes and the counter
\* has not wrapped
C24_RunBeforeWrap ==
    [][(call' = "Esp32Loom::run" /\ run_ticks' = run_ticks + 1 /\ run_ticks' < UINT16_MOD)
       => (run_sleeps' = 1 <=> run_ticks' % CONSOLIDATION_PERIOD = 0)]_vars

\* the uint16_t counter came back to 0 and the loop consolidated, 536 cycles
\* after the consolidation at 65000
RunWrapped == kernel = "arduino" /\ run_ticks = UINT16_MOD /\ run_sleeps = 1

\* ---- the range of processor_state ----

\* the processor types of the hyperedges a run starts with
BoundedTypes == {PROCESSOR_AND, PROCESSOR_OR, PROCESSOR_RESONANCE}

\* a program that weaves a node, activates it fully, creates hyperedges over
\* it and then enters esp32_loom_main_loop
NextBounded ==
    \/ \E z \in SemDraws : run_ticks = 0 /\ Esp32Weave("a", z)
    \/ run_ticks = 0 /\ Esp32SetActivation(0, FP)
    \/ \E ty \in BoundedTypes : run_ticks = 0 /\ Esp32CreateHyperedge(<<0>>, 1, ty)
    \/ Esp32MainLoop

InitBounded == Init /\ kernel = "esp32"

SpecBounded == InitBounded /\ [][NextBounded]_vars

ActivationsInUnitRange ==
    \A n \in 0..(ESP32_MAX_NODES - 1) : esp32_nodes[n].act >= 0 /\ esp32_nodes[n].act <= FP

\* C29: while every node activation is in [0, 1], every hyperedge's
\* processor_state is in [0, 1], whatever its processor type.
C29_ProcessorStateInUnitRange ==
    ActivationsInUnitRange
    => \A i \in 1..esp32_num_hyperedges :
           /\ ~esp32_hyperedges[i].processor_state.nan
           /\ esp32_hyperedges[i].processor_state.v >= 0
           /\ esp32_hyperedges[i].processor_state.v <= FP

\* ------------------------------------------------------------------------
\* The CSR kernel: cycle and hyperedges
\* ========================================================================

\* loom_kernel_cycle calls that are followed
MaxLoomCycles == 2
\* the literal of "cycles_executed % 10000 == 0" in loom_kernel_main_loop
LOOM_CONSOLIDATION_PERIOD == 10000
\* the id the Levi graph gives hyperedge 0
LOOM_MAX_NODES == 100000000

\* activation_product > 0.5
HebbianActive(activation, a, b) == activation[a] * activation[b] * 2 > FP * FP

\* Phase 1 of loom_kernel_cycle from edge e of node's row on: every edge
\* whose endpoints' activation product is above 0.5 calls
\* loom_apply_hebbian_learning(topology, node, neighbor, weight * dt), which
\* writes both vectors and leaves their activation components alone.  A
\* vector is kept as the number of updates it took part in, which is the
\* same for every interleaving of the iterations.
RECURSIVE loom_hebbian_phase(_, _, _, _)
loom_hebbian_phase(T, activation, node, e) ==
    IF node >= T.num_nodes THEN T
    ELSE IF e >= T.row_ptr[node + 1]
    THEN loom_hebbian_phase(T, activation, node + 1, T.row_ptr[node + 1])
    ELSE LET neighbor == T.col_idx[e + 1]
         IN  loom_hebbian_phase(
                 IF HebbianActive(activation, node, neighbor)
                 THEN loom_apply_hebbian_learning(T, node, neighbor) ELSE T,
                 activation, node, e + 1)

\* loom_kernel_cycle.  Phase 2 has no trajectory to apply (num_trajectories
\* is 0), phase 3 calls loom_compute_hyperedge, which writes nothing
\* (loom_tensor.c), phase 4 writes the hormones only.
loom_kernel_cycle(T, activation) == loom_hebbian_phase(T, activation, 0, T.row_ptr[0])

\* the phases of loom_kernel_cycle, in the order of its body
LoomCyclePhases == <<"hebbian", "trajectory", "hyperedges", "hormones">>

\* for each node vector, the iterations of the parallel-for of phase 1 that
\* write it: iteration i writes vec_a (its own) and vec_b (the neighbour's)
\* for every active edge of row i
HebbianWriters(T, activation) ==
    [n \in 0..(CsrCapacity - 1) |->
        {i \in 0..(T.num_nodes - 1) :
            \E e \in T.row_ptr[i]..(T.row_ptr[i + 1] - 1) :
                /\ HebbianActive(activation, i, T.col_idx[e + 1])
                /\ n \in {i, T.col_idx[e + 1]}}]

\* a caller's write to node_bank[node].components[VEC_ACTIVATION], as
\* loom_bootstrap_primordial does for "now"
LoomSetActivation(node, value) ==
    /\ kernel = "csr"
    /\ ~loom_oob
    /\ node < loom_num_nodes
    /\ loom_activation' = [loom_activation EXCEPT ![node] = value]
    /\ call' = "set_activation"
    /\ ret' = 0
    /\ UNCHANGED <<loom_num_hyperedges, loom_hyperedges, loom_cycles_executed,
                   loom_cycle_calls, loom_phases, loom_writers>>
    /\ UNCHANGED <<loom_vars, esp32_vars, ard_vars, kernel, ext_but_csr>>

LoomKernelCycle ==
    /\ kernel = "csr"
    /\ ~loom_oob
    /\ loom_cycle_calls < MaxLoomCycles
    /\ \E T \in {loom_kernel_cycle(LoomState, loom_activation)} : LoomSet(T)
    /\ loom_phases' = LoomCyclePhases
    /\ loom_writers' = HebbianWriters(LoomState, loom_activation)
    /\ loom_cycle_calls' = loom_cycle_calls + 1
    /\ call' = "loom_kernel_cycle"
    /\ ret' = 0
    /\ UNCHANGED <<loom_activation, loom_num_hyperedges, loom_hyperedges,
                   loom_cycles_executed, loom_oob, loom_created>>
    /\ UNCHANGED <<esp32_vars, ard_vars, kernel, ext_but_csr>>

\* One iteration of the while (1) of loom_kernel_main_loop before the first
\* consolidation: loom_kernel_cycle, then cycles_executed++.
LoomMainLoop ==
    /\ kernel = "csr"
    /\ ~loom_oob
    /\ loom_cycle_calls < MaxLoomCycles
    /\ (loom_cycles_executed + 1) % LOOM_CONSOLIDATION_PERIOD # 0
    /\ \E T \in {loom_kernel_cycle(LoomState, loom_activation)} : LoomSet(T)
    /\ loom_phases' = LoomCyclePhases \o <<"cycles_executed">>
    /\ loom_writers' = HebbianWriters(LoomState, loom_activation)
    /\ loom_cycle_calls' = loom_cycle_calls + 1
    /\ loom_cycles_executed' = loom_cycles_executed + 1
    /\ call' = "loom_kernel_main_loop"
    /\ ret' = 0
    /\ UNCHANGED <<loom_activation, loom_num_hyperedges, loom_hyperedges, loom_oob,
                   loom_created>>
    /\ UNCHANGED <<esp32_vars, ard_vars, kernel, ext_but_csr>>

\* ---- the order of the phases ----

\* the order of a tick: refresh hormones, hormonal modulation, hyperedge
\* step, activation propagation, Hebbian batch update, trajectory advance,
\* statistics update (the cycle counter, then the emergence metric)
PhaseOrder ==
    <<"hormones", "modulation", "hyperedges", "activation", "hebbian", "trajectory",
      "cycles_executed", "emergence">>

NextPhases ==
    \/ \E id \in CsrIdents : LoomWeave(id)
    \/ \E n \in 0..(CsrCapacity - 1) : LoomSetActivation(n, FP)
    \/ \E a, b \in 0..(CsrCapacity - 1) : LoomCreateBidirectional(a, b, 9)
    \/ LoomKernelCycle
    \/ LoomMainLoop
    \/ \E z \in SemDraws : Esp32Weave("a", z)
    \/ \E v \in ActivationValues : Esp32SetActivation(0, v)
    \/ \E x \in TickHyperedges : Esp32CreateHyperedge(x.p, Len(x.p), x.ty)
    \/ Esp32KernelCycle

InitPhases == Init /\ kernel \in {"csr", "esp32"}

SpecPhases == InitPhases /\ [][NextPhases]_vars

\* C23: a cycle of either kernel runs the phases of PhaseOrder, each once
\* and in that order, the emergence metric last, and adds one to
\* cycles_executed.
C23_PhasesInFixedOrder ==
    [][/\ call' = "esp32_loom_kernel_cycle"
          => /\ esp32_phases' = PhaseOrder
             /\ esp32_cycles_executed' = esp32_cycles_executed + 1
       /\ call' \in {"loom_kernel_cycle", "loom_kernel_main_loop"}
          => /\ loom_phases' = PhaseOrder
             /\ loom_cycles_executed' = loom_cycles_executed + 1]_vars

\* the ESP32 cycle alone
C23_Esp32PhasesInFixedOrder ==
    [][call' = "esp32_loom_kernel_cycle"
          => /\ esp32_phases' = PhaseOrder
             /\ esp32_cycles_executed' = esp32_cycles_executed + 1]_vars

\* ---- what the work items of a phase write ----

NextParallel ==
    \/ \E id \in CsrIdents : LoomWeave(id)
    \/ \E n \in 0..(CsrCapacity - 1) : LoomSetActivation(n, FP)
    \/ \E a, b \in 0..(CsrCapacity - 1) : LoomCreateEdge(a, b, 9)
    \/ LoomKernelCycle
    \/ \E id \in Esp32Idents(esp32_weaves), z \in SemDraws : Esp32Weave(id, z)
    \/ \E n \in 0..(ESP32_MAX_NODES - 1), v \in ActivationValues : Esp32SetActivation(n, v)
    \/ \E ty \in ProcessorTypes : Esp32CreateHyperedge(<<0, 1>>, 2, ty)
    \/ \E h \in 0..(ESP32_MAX_HYPEREDGES - 1) : Esp32ComputeHyperedge(h)

InitParallel == Init /\ kernel \in {"csr", "esp32"}

SpecParallel == InitParallel /\ [][NextParallel]_vars

\* the iterations of the Hebbian parallel-for write their own node vector only
CsrIterationsWriteOwnVector ==
    [][call' = "loom_kernel_cycle"
       => \A n \in 0..(CsrCapacity - 1) : loom_writers'[n] \subseteq {n}]_vars

\* no node vector is written by two iterations of the Hebbian parallel-for
CsrNoVectorWrittenTwice ==
    [][call' = "loom_kernel_cycle"
       => \A n \in 0..(CsrCapacity - 1) : Cardinality(loom_writers'[n]) <= 1]_vars

\* a hyperedge step writes the state of its hyperedge and no node vector
Esp32HyperedgeStepWritesOwnState ==
    [][call' = "esp32_loom_compute_hyperedge" => esp32_nodes' = esp32_nodes]_vars

\* C21: the work items of a phase write their own slot only: no two
\* iterations of the Hebbian parallel-for of loom_kernel_cycle write one node
\* vector, and a hyperedge step of the ESP32 kernel writes no node vector.
C21_WorkItemsWriteOwnSlot ==
    [][/\ call' = "loom_kernel_cycle"
          => \A n \in 0..(CsrCapacity - 1) : Cardinality(loom_writers'[n]) <= 1
       /\ call' = "esp32_loom_compute_hyperedge" => esp32_nodes' = esp32_nodes]_vars

\* ---- the Levi graph of a hyperedge ----

\* loom_create_hyperedge calls that are followed
MaxLoomHyperedges == 2
\* participant arrays handed to loom_create_hyperedge
LeviParticipants == {<<>>, <<0>>, <<0, 1>>}

\* loom_create_hyperedge: the hyperedge is stored, then every participant is
\* connected to the id LOOM_MAX_NODES + hyperedge_id with weight 1.0/count.
\* The first loom_create_edge of the first loom_create_bidirectional inserts
\* that id into the participant's row and then adds 1.0 to
\* node_bank[LOOM_MAX_NODES + hyperedge_id].components[VEC_METADATA + 1],
\* past the initial_capacity vectors of node_bank: oob, with the topology as
\* that write found it.
loom_create_hyperedge(T, hyperedges, participants, count) ==
    LET hyperedge_id == Len(hyperedges)
        hedge == [id |-> hyperedge_id, num_participants |-> count,
                  participants |-> SubSeq(participants, 1, count)]
    IN  [T |-> IF count = 0 THEN T
               ELSE loom_create_edge(T, participants[1], LOOM_MAX_NODES + hyperedge_id,
                                     10 \div count),
         hyperedges |-> Append(hyperedges, hedge),
         oob |-> count > 0 /\ LOOM_MAX_NODES + hyperedge_id >= CsrCapacity,
         ret |-> hyperedge_id]

LoomCreateHyperedge(participants, count) ==
    /\ kernel = "csr"
    /\ ~loom_oob
    /\ \A i \in 1..count : participants[i] < loom_num_nodes
    /\ loom_num_hyperedges < MaxLoomHyperedges
    /\ \E r \in {loom_create_hyperedge(LoomState, loom_hyperedges, participants, count)} :
           /\ LoomSet(r.T)
           /\ loom_hyperedges' = r.hyperedges
           /\ loom_oob' = r.oob
           /\ ret' = r.ret
    /\ loom_num_hyperedges' = loom_num_hyperedges + 1
    /\ call' = "loom_create_hyperedge"
    /\ UNCHANGED <<loom_created, loom_activation, loom_cycles_executed, loom_cycle_calls,
                   loom_phases, loom_writers>>
    /\ UNCHANGED <<esp32_vars, ard_vars, kernel, ext_but_csr>>

NextLevi ==
    \/ NextCsr
    \/ \E p \in LeviParticipants : LoomCreateHyperedge(p, Len(p))

InitLevi == Init /\ kernel = "csr"

SpecLevi == InitLevi /\ [][NextLevi]_vars

\* C27: while no more nodes are woven than loom_init allocated, no call
\* reaches past the arrays of loom_init and every target in col_idx is a
\* woven node.
C27_EdgeEndpointsAreNodes ==
    loom_num_nodes <= CsrCapacity
    => /\ ~loom_oob
       /\ \A k \in 1..Len(loom_col_idx) : loom_col_idx[k] < loom_num_nodes

\* ------------------------------------------------------------------------
\* ESP-IDF application: the sensor task and the start-up of the topology
\* ========================================================================

\* iterations of the loop of read_sensors_task that are followed
MaxSensorReads == 2

\* the statements of read_sensors_task that write topology.hormones
SensorWrites == {"light_level", "temperature", "battery_level"}

SensorFrame ==
    UNCHANGED <<ret, loom_vars, esp32_vars, ard_vars, kernel, ext_but_sensor>>

\* read_sensors_task, created by app_main together with consciousness_task
\* at the same priority, is scheduled for the first time
ReadSensorsStart ==
    /\ kernel = "idf"
    /\ sensor_pc = "not_created"
    /\ task_pc.main # "create_tasks"
    /\ sensor_pc' = "check"
    /\ call' = "read_sensors_task"
    /\ UNCHANGED sensor_reads
    /\ SensorFrame

\* if (topology_initialized), without the test
ReadSensorsUnchecked ==
    /\ kernel = "idf"
    /\ sensor_pc = "check"
    /\ sensor_pc' = "light_level"
    /\ call' = "topology_initialized"
    /\ UNCHANGED sensor_reads
    /\ SensorFrame

\* if (topology_initialized) { ... } vTaskDelay(500 ms)
ReadSensorsCheck ==
    /\ kernel = "idf"
    /\ sensor_pc = "check"
    /\ sensor_pc' = IF topology_initialized THEN "light_level" ELSE "delay"
    /\ call' = "topology_initialized"
    /\ UNCHANGED sensor_reads
    /\ SensorFrame

\* topology.hormones.light_level = ..., .temperature = ..., .battery_level =
\* 0.85f: three stores into the global topology, no lock taken
ReadSensorsWrite ==
    /\ kernel = "idf"
    /\ sensor_pc \in SensorWrites
    /\ sensor_pc' = CASE sensor_pc = "light_level" -> "temperature"
                      [] sensor_pc = "temperature" -> "battery_level"
                      [] OTHER -> "delay"
    /\ call' = sensor_pc
    /\ UNCHANGED sensor_reads
    /\ SensorFrame

\* the 500 ms delay expires and the loop goes round
ReadSensorsWake ==
    /\ kernel = "idf"
    /\ sensor_pc = "delay"
    /\ sensor_reads < MaxSensorReads
    /\ sensor_pc' = "check"
    /\ sensor_reads' = sensor_reads + 1
    /\ call' = "vTaskDelay"
    /\ SensorFrame

\* if (err != ESP_OK) { vTaskDelete(NULL); return; } after esp32_loom_init
\* or esp32_loom_bootstrap_primordial: the call is taken to return any
\* esp_err_t
ConsciousnessInitFails ==
    /\ kernel = "idf"
    /\ task_in.consciousness \in {"esp32_loom_init", "esp32_loom_bootstrap_primordial"}
    /\ task_in' = [task_in EXCEPT !.consciousness = NotExecuting]
    /\ task_pc' = [task_pc EXCEPT !.consciousness = "deleted"]
    /\ call' = "vTaskDelete"
    /\ UNCHANGED <<topology_initialized, cycle_count, demo_step, demo_trial, demo_i>>
    /\ TaskFrame

NextBoot ==
    \/ NextIdf
    \/ ConsciousnessInitFails
    \/ ReadSensorsStart
    \/ ReadSensorsCheck
    \/ ReadSensorsWrite
    \/ ReadSensorsWake

InitBoot == Init /\ kernel = "idf"

SpecBoot == InitBoot /\ [][NextBoot]_vars

\* C22: read_sensors_task stores into the hormone inputs only while no task
\* is inside esp32_loom_kernel_cycle.
C22_SensorsWriteBetweenTicks ==
    [][(sensor_pc \in SensorWrites /\ sensor_pc' # sensor_pc)
       => \A t \in Tasks : task_in[t] # "esp32_loom_kernel_cycle"]_vars

\* where run_demos is once it has passed its test of topology_initialized
InDemos == task_pc.main \in {"setup", "activate", "cycles", "simulate", "delay_100"}

\* C30: topology_initialized is true only once esp32_loom_init and
\* esp32_loom_bootstrap_primordial have both returned; read_sensors_task and
\* run_demos are at a statement that touches the topology only when the flag
\* is true; after a failed initialisation the flag is false and neither of
\* them is at such a statement.
C30_TopologyTouchedAfterStartup ==
    /\ topology_initialized => task_pc.consciousness \in {"cycle", "delay"}
    /\ (sensor_pc \in SensorWrites \/ InDemos \/ task_in.main # NotExecuting)
       => topology_initialized
    /\ task_pc.consciousness = "deleted"
       => /\ ~topology_initialized
          /\ sensor_pc \notin SensorWrites
          /\ ~InDemos
          /\ task_in.main = NotExecuting

\* read_sensors_task is storing into the topology while run_demos is inside
\* a call on it
C30_Witness == sensor_pc \in SensorWrites /\ task_in.main # NotExecuting

\* the initialisation failed and both other tasks went on running
C30_FailedStartup ==
    task_pc.consciousness = "deleted" /\ sensor_reads > 0 /\ task_pc.main = "returned"

====
